---- MODULE Spec2Model ----
(***************************************************************************)
(* Model of SubroutineInjection (lib/dale_passes/ModuleTransformationPass  *)
(* .cpp): the pass that makes a function checkpointable by inserting a     *)
(* restore dispatcher, save / restore / junction blocks and by propagating *)
(* the merged value through the CFG, followed by an interpreter of the     *)
(* instrumented function over a checkpoint memory.                         *)
(*                                                                         *)
(* A function is a record                                                  *)
(*   succ  : block -> sequence of successor blocks (the terminator)        *)
(*   insts : block -> sequence of non-terminator instructions              *)
(*   cases : block -> case values of a switch terminator (<<>> otherwise)  *)
(*   cond  : block -> the value a switch terminator switches on (else 0)   *)
(*   name  : block -> <<role, checkpoint block, id>> of a block the pass    *)
(*           named ("<checkpoint block>.<role>.id<id>")                     *)
(* Blocks are 1..Len(succ); block 1 is the entry block.  An instruction is *)
(* a record [id, kind, ops, blks, slot, imm, callee]; a phi pairs ops[i]   *)
(* with the incoming block blks[i]; a ckload / ckstore addresses slot      *)
(* `slot` of ckpt_mem (the getelementptr is folded into the access) and a  *)
(* ckstore without operand stores the constant imm.                        *)
(***************************************************************************)
EXTENDS Integers, Sequences, FiniteSets, TLC

\* Slots of the checkpoint memory segment.
HEARTBEAT == 0
CKPT_ID == 1
IS_COMPLETE == 2
VALUES_START == 3

\* Run-time words range over 0 .. MaxWord-1.
MaxWord == 2
\* Blocks one invocation of the function may execute.
MaxSteps == 9
\* Invocations of the function on one checkpoint memory.
MaxInvocations == 2
\* Functions of the module (M.getFunctionList()).
NumFuncs == 2
\* Entries of the checkpointBBTopoMap handed to getCheckpointIdBBMap.
MaxTopos == 257
\* Operands getFuncValuePtrsMap scans in one function.
MaxOperands == 4
\* blocks of a function handed to chooseBBWithLeastTrackedVals; block 1 is
\* the entry block
NumBBs == 3
\* most tracked values of a block
MaxVals == 2
\* most instructions in front of a terminator
MaxBlockLen == 3
\* the turns of the compare search are counted modulo this number
MaxIters == 4

Undef == 0 - 1

-----------------------------------------------------------------------------
(* IR helpers *)

Inst(id, kind, ops) ==
  [id |-> id, kind |-> kind, ops |-> ops, blks |-> <<>>, slot |-> 0, imm |-> 0, callee |-> ""]
PhiInst(id, ops, blks) ==
  [id |-> id, kind |-> "phi", ops |-> ops, blks |-> blks, slot |-> 0, imm |-> 0, callee |-> ""]
CallInst(id, callee) ==
  [id |-> id, kind |-> "call", ops |-> <<>>, blks |-> <<>>, slot |-> 0, imm |-> 0, callee |-> callee]
SlotInst(id, kind, ops, slot, imm) ==
  [id |-> id, kind |-> kind, ops |-> ops, blks |-> <<>>, slot |-> slot, imm |-> imm, callee |-> ""]

NoName == <<"", 0, 0>>

MkFunc(succ, insts) ==
  [succ |-> succ, insts |-> insts,
   cases |-> [b \in DOMAIN succ |-> <<>>],
   cond |-> [b \in DOMAIN succ |-> 0],
   name |-> [b \in DOMAIN succ |-> NoName]]

Blocks(G) == DOMAIN G.succ
Range(s) == {s[i] : i \in DOMAIN s}

RECURSIVE SetToSeq(_)
SetToSeq(S) ==
  IF S = {} THEN <<>>
  ELSE LET x == CHOOSE y \in S : \A z \in S : y <= z
       IN <<x>> \o SetToSeq(S \ {x})

RemoveAt(s, i) == SubSeq(s, 1, i - 1) \o SubSeq(s, i + 1, Len(s))

\* kinds of instruction whose id is an SSA value
DefKinds == {"op", "phi", "load", "alloca", "ckload", "add1"}
DefsIn(G, b) == {G.insts[b][i].id : i \in {j \in DOMAIN G.insts[b] : G.insts[b][j].kind \in DefKinds}}
NonPhiUses(G, b) ==
  UNION {Range(G.insts[b][i].ops) : i \in {j \in DOMAIN G.insts[b] : G.insts[b][j].kind # "phi"}}
PhiUsesFrom(G, p, s) ==
  UNION {{G.insts[s][i].ops[k] : k \in {j \in DOMAIN G.insts[s][i].ops : G.insts[s][i].blks[j] = p}}
         : i \in {j \in DOMAIN G.insts[s] : G.insts[s][j].kind = "phi"}}

\* pred_begin .. pred_end: one entry per CFG edge into b
PredEdges(G, b) == {<<p, i>> \in Blocks(G) \X (1..4) : i <= Len(G.succ[p]) /\ G.succ[p][i] = b}
PredSet(G, b) == {e[1] : e \in PredEdges(G, b)}
RECURSIVE EdgesToSeq(_)
EdgesToSeq(E) ==
  IF E = {} THEN <<>>
  ELSE LET e == CHOOSE x \in E : \A y \in E : x[1] < y[1] \/ (x[1] = y[1] /\ x[2] <= y[2])
       IN <<e[1]>> \o EdgesToSeq(E \ {e})
getBBPredecessors(G, b) == EdgesToSeq(PredEdges(G, b))
getBBSuccessors(G, b) == G.succ[b]
hasNPredecessorsOrMore(G, b, n) == Cardinality(PredEdges(G, b)) >= n

-----------------------------------------------------------------------------
(* The live-out sets the upstream analysis hands to the pass (live_values  *)
(* .json), computed here as the least fixpoint of the liveness equations.  *)

LiveStep(G, lo) ==
  [b \in Blocks(G) |->
     UNION {((NonPhiUses(G, s) \ DefsIn(G, s)) \cup (lo[s] \ DefsIn(G, s)))
            \cup PhiUsesFrom(G, b, s) : s \in Range(G.succ[b])}]
RECURSIVE LiveFix(_, _)
LiveFix(G, lo) == LET nx == LiveStep(G, lo) IN IF nx = lo THEN lo ELSE LiveFix(G, nx)
LiveOutOf(G) == LiveFix(G, [b \in Blocks(G) |-> {}])

-----------------------------------------------------------------------------
(* Input functions.  Value 1 is a function argument; instructions have ids *)
(* from 10.  The callee of every call is chosen in Init.                   *)

ArgVal == 1

\* entry -> checkpoint block -> use
ProgLinear ==
  MkFunc(<< <<2>>, <<3>>, <<>> >>,
         << <<Inst(10, "op", <<ArgVal>>)>>,
            <<CallInst(11, "")>>,
            <<Inst(12, "op", <<10>>)>> >>)

\* a loop whose latch (3) defines x = 12 and ends in the directive
ProgLoopLatch ==
  MkFunc(<< <<2>>, <<3, 4>>, <<2>>, <<>> >>,
         << <<Inst(10, "op", <<ArgVal>>)>>,
            <<PhiInst(11, <<10, 12>>, <<1, 3>>)>>,
            <<Inst(12, "op", <<11>>), CallInst(13, "")>>,
            <<Inst(14, "op", <<11>>)>> >>)

\* the tracked value 10 is defined before the loop that holds the directive
ProgLoopInvariant ==
  MkFunc(<< <<2>>, <<3, 4>>, <<2>>, <<>> >>,
         << <<Inst(10, "op", <<ArgVal>>)>>,
            <<Inst(11, "op", <<10>>)>>,
            <<CallInst(12, "")>>,
            <<Inst(13, "op", <<10>>)>> >>)

\* the resume block (3) heads a diamond that reconverges in 6
ProgDiamond ==
  MkFunc(<< <<2>>, <<3>>, <<4, 5>>, <<6>>, <<6>>, <<>> >>,
         << <<Inst(10, "op", <<ArgVal>>)>>,
            <<CallInst(11, "")>>,
            <<Inst(12, "op", <<10>>)>>,
            <<Inst(13, "op", <<10>>)>>,
            <<Inst(14, "op", <<10>>)>>,
            <<Inst(15, "op", <<10>>)>> >>)

\* the loop of ProgLoopInvariant with a pointer to a word as tracked value
ProgPointerLoop ==
  MkFunc(<< <<2>>, <<3, 4>>, <<2>>, <<>> >>,
         << <<Inst(10, "alloca", <<>>), Inst(11, "store", <<ArgVal, 10>>)>>,
            <<Inst(12, "load", <<10>>)>>,
            <<CallInst(13, "")>>,
            <<Inst(14, "load", <<10>>)>> >>)

\* directive in the preheader (2) of a loop whose header (3) has two back
\* edges, from 4 and from 5; 10 is used in both latches
ProgTwoLatches ==
  MkFunc(<< <<2>>, <<3>>, <<4, 5>>, <<3, 6>>, <<3>>, <<>> >>,
         << <<Inst(10, "op", <<ArgVal>>)>>,
            <<CallInst(11, "")>>,
            <<>>,
            <<Inst(12, "op", <<10>>)>>,
            <<Inst(13, "op", <<10>>)>>,
            <<>> >>)

\* the diamond of ProgDiamond with a block (7) after the reconvergence block
ProgDiamondTail ==
  MkFunc(<< <<2>>, <<3>>, <<4, 5>>, <<6>>, <<6>>, <<7>>, <<>> >>,
         << <<Inst(10, "op", <<ArgVal>>)>>,
            <<CallInst(11, "")>>,
            <<>>,
            <<>>,
            <<>>,
            <<Inst(12, "op", <<10>>)>>,
            <<Inst(13, "op", <<10, 12>>)>> >>)

\* the diamond whose reconvergence block (6) has a phi that takes the tracked
\* value 10 from the arm visited first (4), and a use of 10 after it
ProgDiamondPhiFirst ==
  MkFunc(<< <<2>>, <<3>>, <<4, 5>>, <<6>>, <<6>>, <<>> >>,
         << <<Inst(10, "op", <<ArgVal>>)>>,
            <<CallInst(11, "")>>,
            <<>>,
            <<>>,
            <<>>,
            <<PhiInst(12, <<10, ArgVal>>, <<4, 5>>), Inst(13, "op", <<12, 10>>)>> >>)

\* the diamond of ProgDiamond whose reconvergence block (6) has a phi that
\* takes the tracked value 10 from one arm only, and a use of 10 after it
ProgDiamondPhi ==
  MkFunc(<< <<2>>, <<3>>, <<4, 5>>, <<6>>, <<6>>, <<>> >>,
         << <<Inst(10, "op", <<ArgVal>>)>>,
            <<CallInst(11, "")>>,
            <<>>,
            <<>>,
            <<>>,
            <<PhiInst(12, <<ArgVal, 10>>, <<4, 5>>), Inst(13, "op", <<12, 10>>)>> >>)

\* the entry block ends in a conditional branch
ProgEntryCond ==
  MkFunc(<< <<3, 2>>, <<3>>, <<>> >>,
         << <<Inst(10, "op", <<ArgVal>>)>>,
            <<CallInst(11, "")>>,
            <<Inst(12, "op", <<10>>)>> >>)

\* the entry block branches to the two arms of an if / else
ProgEntryIfElse ==
  MkFunc(<< <<2, 3>>, <<4>>, <<4>>, <<>> >>,
         << <<Inst(10, "op", <<ArgVal>>)>>,
            <<CallInst(11, "")>>,
            <<>>,
            <<Inst(12, "op", <<10>>)>> >>)

\* the entry block itself holds the directive
ProgEntryCkpt ==
  MkFunc(<< <<2>>, <<3>>, <<>> >>,
         << <<Inst(10, "op", <<ArgVal>>), CallInst(11, "")>>,
            <<Inst(12, "op", <<10>>)>>,
            <<Inst(13, "op", <<12>>)>> >>)

\* directive in the preheader (2) of a loop whose header phi takes 10
ProgPreheader ==
  MkFunc(<< <<2>>, <<3>>, <<4, 5>>, <<3>>, <<>> >>,
         << <<>>,
            <<Inst(10, "op", <<ArgVal>>), CallInst(14, "")>>,
            <<PhiInst(11, <<10, 12>>, <<2, 4>>)>>,
            <<Inst(12, "op", <<11, 10>>)>>,
            <<Inst(13, "op", <<11>>)>> >>)

\* two blocks with a call each, two values live across them
ProgTwoCalls ==
  MkFunc(<< <<2>>, <<3>>, <<4>>, <<>> >>,
         << <<Inst(10, "op", <<ArgVal>>), Inst(11, "op", <<10>>)>>,
            <<CallInst(12, "")>>,
            <<CallInst(13, "")>>,
            <<Inst(14, "op", <<10, 11>>)>> >>)

\* a cycle 5 <-> 7 below the resume block (4), entered directly and through
\* the join block 6, which has a second predecessor (8) outside the cycle
ProgCycle ==
  MkFunc(<< <<2>>, <<3, 8>>, <<4>>, <<5, 6>>, <<7>>, <<5>>, <<5, 9>>, <<6>>, <<>> >>,
         << <<Inst(10, "op", <<ArgVal>>)>>,
            <<>>,
            <<CallInst(11, "")>>,
            <<>>,
            <<Inst(14, "op", <<ArgVal>>)>>,
            <<Inst(12, "op", <<10>>)>>,
            <<>>,
            <<>>,
            <<Inst(13, "op", <<ArgVal>>)>> >>)

\* the tracked value 10 is a pointer to a word
ProgPointer ==
  MkFunc(<< <<2>>, <<3>>, <<>> >>,
         << <<Inst(10, "alloca", <<>>), Inst(11, "store", <<ArgVal, 10>>)>>,
            <<CallInst(12, "")>>,
            <<Inst(13, "load", <<10>>)>> >>)

\* directive in the preheader (2) of a loop: 10 enters the header phi, 11 is
\* used in the loop body
ProgTwoTracked ==
  MkFunc(<< <<2>>, <<3>>, <<4, 5>>, <<3>>, <<>> >>,
         << <<Inst(10, "op", <<ArgVal>>), Inst(11, "op", <<ArgVal>>)>>,
            <<CallInst(15, "")>>,
            <<PhiInst(12, <<10, 13>>, <<2, 4>>)>>,
            <<Inst(13, "op", <<12, 11>>)>>,
            <<Inst(14, "op", <<12>>)>> >>)

\* a loop whose latch (3) defines two values, each taken by a phi of the
\* header, and holds the directive
ProgLoopTwoVals ==
  MkFunc(<< <<2>>, <<3, 4>>, <<2>>, <<>> >>,
         << <<Inst(10, "op", <<ArgVal>>)>>,
            <<PhiInst(11, <<10, 13>>, <<1, 3>>), PhiInst(12, <<10, 15>>, <<1, 3>>)>>,
            <<Inst(13, "op", <<11>>), CallInst(16, ""), Inst(15, "op", <<12>>)>>,
            <<Inst(14, "op", <<11, 12>>)>> >>)

\* the loop 5 <-> 7 uses 10 and leaves to 6 and to 8; block 6, which 10 is
\* not live into, is entered from inside and from outside the loop
ProgLoopTwoExits ==
  MkFunc(<< <<2>>, <<3>>, <<5, 4>>, <<6>>, <<6, 7, 8>>, <<8>>, <<5, 8>>, <<>> >>,
         << <<Inst(10, "op", <<ArgVal>>)>>,
            <<CallInst(11, "")>>,
            <<>>,
            <<>>,
            <<Inst(12, "op", <<10>>)>>,
            <<>>,
            <<>>,
            <<>> >>)

\* a function of one block
ProgSingleBlock ==
  MkFunc(<< <<>> >>, << <<Inst(10, "op", <<ArgVal>>), CallInst(11, "")>> >>)

Programs ==
  {ProgLinear, ProgLoopLatch, ProgLoopInvariant, ProgDiamond, ProgEntryCond,
   ProgEntryCkpt, ProgPreheader, ProgTwoCalls, ProgCycle, ProgPointer,
   ProgTwoTracked, ProgEntryIfElse, ProgSingleBlock, ProgDiamondPhi,
   ProgDiamondTail, ProgDiamondPhiFirst, ProgTwoLatches, ProgPointerLoop,
   ProgLoopTwoVals, ProgLoopTwoExits}

\* pointer-typed values of the inputs, and callee names
PointerVals(G) ==
  UNION {{G.insts[b][i].id : i \in {j \in DOMAIN G.insts[b] : G.insts[b][j].kind = "alloca"}}
         : b \in Blocks(G)}
\* an indirect call has no called function
NullCallee == ""
CalleeNames == {"checkpoint", "printf", NullCallee}
NameContainsCheckpoint(n) == n \in {"checkpoint"}

CallSites(G) ==
  {<<b, i>> \in Blocks(G) \X (1..2) : i <= Len(G.insts[b]) /\ G.insts[b][i].kind = "call"}
WithCallees(G, nm) ==
  [G EXCEPT !.insts =
     [b \in Blocks(G) |->
        [i \in DOMAIN G.insts[b] |->
           IF <<b, i>> \in DOMAIN nm THEN [G.insts[b][i] EXCEPT !.callee = nm[<<b, i>>]]
           ELSE G.insts[b][i]]]]

-----------------------------------------------------------------------------
(* Candidate selection *)

getBBsWithOneSuccessor(G, m) ==
  [b \in {x \in DOMAIN m : Len(G.succ[x]) = 1} |-> m[b]]

\* the filter with nothing removed
keepNestedPtrTrackedVals(m, nested) == m

removeNestedPtrTrackedVals(m, nested) ==
  [b \in DOMAIN m |-> {v \in m[b] : v \notin nested}]

removeBBsWithNoTrackedVals(m) ==
  [b \in {x \in DOMAIN m : Cardinality(m[x]) > 0} |-> m[b]]

\* every call taken for a directive, whatever its callee
IsAnyCall(i) == i.kind = "call"
IsDirective(i) == i.kind = "call" /\ NameContainsCheckpoint(i.callee)
HasDirective(G, b) == \E i \in DOMAIN G.insts[b] : IsDirective(G.insts[b][i])
FirstDirective(G, b) ==
  CHOOSE i \in DOMAIN G.insts[b] :
    IsDirective(G.insts[b][i]) /\ \A j \in 1..(i - 1) : ~IsDirective(G.insts[b][j])

\* the blocks of m that hold a directive call, and the function with the
\* first directive call of each such block erased
chooseBBWithCheckpointDirective(G, m) ==
  LET sel == {b \in DOMAIN m : HasDirective(G, b)}
  IN [cp |-> [b \in sel |-> m[b]],
      g |-> [G EXCEPT !.insts =
               [b \in Blocks(G) |->
                  IF b \in sel THEN RemoveAt(G.insts[b], FirstDirective(G, b))
                  ELSE G.insts[b]]]]

\* the scan reads the name of the called function of every call it meets; it
\* leaves a block once the block is selected
ScansNullCallee(G, m) ==
  \E b \in Blocks(G) : \E i \in DOMAIN G.insts[b] :
    /\ G.insts[b][i].kind = "call"
    /\ G.insts[b][i].callee = NullCallee
    /\ ~(b \in DOMAIN m /\ \E j \in 1..(i - 1) : IsDirective(G.insts[b][j]))

getCkptBBsInFunc(G, cp) == {b \in Blocks(G) : b \in DOMAIN cp}

-----------------------------------------------------------------------------
(* Edge splitting.  SplitCriticalEdge and SplitBlock are the LLVM utilities *)
(* SplitEdgeCustom calls.                                                  *)

GetSuccessorNumber(G, bb, s) ==
  CHOOSE i \in DOMAIN G.succ[bb] :
    G.succ[bb][i] = s /\ \A j \in 1..(i - 1) : G.succ[bb][j] # s

isCriticalEdge(G, bb, i) ==
  Len(G.succ[bb]) > 1 /\ Cardinality(PredEdges(G, G.succ[bb][i])) > 1

NewBlock(G) == Len(G.succ) + 1

ReplaceFirst(s, old, new) ==
  IF old \notin Range(s) THEN s
  ELSE LET k == CHOOSE i \in DOMAIN s : s[i] = old /\ \A j \in 1..(i - 1) : s[j] # old
       IN [s EXCEPT ![k] = new]
ReplaceAll(s, old, new) == [i \in DOMAIN s |-> IF s[i] = old THEN new ELSE s[i]]

\* the new block takes the place of successor i of bb; exactly one incoming
\* of every phi of the destination is revectored to it
SplitCriticalEdge(G, bb, i) ==
  LET d == G.succ[bb][i]
      n == NewBlock(G)
      phisOfD == [k \in DOMAIN G.insts[d] |->
                    IF G.insts[d][k].kind = "phi"
                    THEN [G.insts[d][k] EXCEPT !.blks = ReplaceFirst(G.insts[d][k].blks, bb, n)]
                    ELSE G.insts[d][k]]
  IN [succ |-> Append([G.succ EXCEPT ![bb][i] = n], <<d>>),
      insts |-> Append([G.insts EXCEPT ![d] = phisOfD], <<>>),
      cases |-> Append(G.cases, <<>>),
      cond |-> Append(G.cond, 0),
      name |-> Append(G.name, NoName)]

\* bb is split before its terminator: the new block holds the terminator and
\* the phis of its successors name the new block instead of bb
SplitBlock(G, bb) ==
  LET n == NewBlock(G)
      ss == Range(G.succ[bb])
      fix(b) == [k \in DOMAIN G.insts[b] |->
                   IF G.insts[b][k].kind = "phi"
                   THEN [G.insts[b][k] EXCEPT !.blks = ReplaceAll(G.insts[b][k].blks, bb, n)]
                   ELSE G.insts[b][k]]
  IN [succ |-> Append([G.succ EXCEPT ![bb] = <<n>>], G.succ[bb]),
      insts |-> Append([b \in Blocks(G) |-> IF b \in ss THEN fix(b) ELSE G.insts[b]], <<>>),
      cases |-> Append([G.cases EXCEPT ![bb] = <<>>], G.cases[bb]),
      cond |-> Append([G.cond EXCEPT ![bb] = 0], G.cond[bb]),
      name |-> Append(G.name, NoName)]

SplitEdgeCustom(G, bb, s) ==
  LET i == GetSuccessorNumber(G, bb, s)
  IN IF isCriticalEdge(G, bb, i) THEN SplitCriticalEdge(G, bb, i) ELSE SplitBlock(G, bb)

\* What a call of splitEdgeWrapper can do.  "ok": the new block is returned.
\* A null result of SplitEdgeCustom is dereferenced (setName) before it is
\* tested: the call then either returns nullptr ("null") or the pass dies
\* ("crash").  An edge that is not critical out of a block with several
\* successors fails SplitEdgeCustom's assertion.
SplitOutcomes(G, bb, s) ==
  IF ~isCriticalEdge(G, bb, GetSuccessorNumber(G, bb, s)) /\ Len(G.succ[bb]) # 1
  THEN {"crash"}
  ELSE {"ok", "null", "crash"}

\* the successful call: the function with the edge split and the block named
splitEdgeWrapper(G, bb, s, nm) ==
  LET g == SplitEdgeCustom(G, bb, s)
  IN [g |-> [g EXCEPT !.name[NewBlock(G)] = nm], bb |-> NewBlock(G)]

getSingleSuccessor(G, b) == IF Len(G.succ[b]) = 1 THEN G.succ[b][1] ELSE 0

EmptyMap == [x \in {} |-> 0]

-----------------------------------------------------------------------------
(* Interpreter of a function over a checkpoint memory: the words computed, *)
(* the slots of ckpt_mem and the cells reached through pointers.           *)

\* i32 words: the largest signed value; one more wraps to the smallest
Int32Max == 2147483647
Int32Min == (0 - Int32Max) - 1
Add1(x) == IF x = Int32Max THEN Int32Min ELSE x + 1

Val(env, x) == IF x \in DOMAIN env THEN env[x] ELSE Undef
Vals(env, ops) == [i \in DOMAIN ops |-> Val(env, ops[i])]
RECURSIVE SumSeq(_)
SumSeq(s) == IF s = <<>> THEN 0 ELSE Head(s) + SumSeq(Tail(s))
\* an uninterpreted operation: a word that depends on every operand
OpResult(id, vals) ==
  IF Undef \in Range(vals) THEN Undef ELSE (id + SumSeq(vals)) % MaxWord
Bind(f, x, w) == [y \in DOMAIN f \cup {x} |-> IF y = x THEN w ELSE f[y]]
AllocaAddr(id) == 1000 + id

MemSlots == 0..(VALUES_START + 1)
FreshMem(cid) == [k \in MemSlots |-> IF k = CKPT_ID THEN cid ELSE 0]
\* values the HEARTBEAT slot of the memory handed to the function may hold
InitialHeartbeats == {0, Int32Max}

\* one non-phi instruction on a machine [env, mem, heap]
ExecInst(m, I) ==
  CASE I.kind = "op" ->
         [m EXCEPT !.env = Bind(@, I.id, OpResult(I.id, Vals(m.env, I.ops)))]
    [] I.kind = "add1" ->
         LET x == Val(m.env, I.ops[1])
         IN [m EXCEPT !.env = Bind(@, I.id, IF x = Undef THEN Undef ELSE Add1(x))]
    [] I.kind = "load" ->
         LET p == Val(m.env, I.ops[1])
         IN [m EXCEPT !.env = Bind(@, I.id, IF p \in DOMAIN m.heap THEN m.heap[p] ELSE Undef)]
    [] I.kind = "store" ->
         LET p == Val(m.env, I.ops[2])
         IN IF p \in DOMAIN m.heap THEN [m EXCEPT !.heap[p] = Val(m.env, I.ops[1])] ELSE m
    [] I.kind = "alloca" ->
         [m EXCEPT !.env = Bind(@, I.id, AllocaAddr(I.id)),
                   !.heap = Bind(@, AllocaAddr(I.id), Undef)]
    [] I.kind = "ckload" ->
         [m EXCEPT !.env = Bind(@, I.id, m.mem[I.slot])]
    [] I.kind = "ckstore" ->
         [m EXCEPT !.mem[I.slot] = IF I.ops = <<>> THEN I.imm ELSE Val(m.env, I.ops[1])]
    [] OTHER -> m

PhiIdx(G, b) == {k \in DOMAIN G.insts[b] : G.insts[b][k].kind = "phi"}
HasIncoming(phi, from) == \E i \in DOMAIN phi.blks : phi.blks[i] = from
IncomingIdx(phi, from) ==
  CHOOSE i \in DOMAIN phi.blks : phi.blks[i] = from /\ \A j \in 1..(i - 1) : phi.blks[j] # from
PhiValue(phi, from, env) ==
  IF HasIncoming(phi, from) THEN Val(env, phi.ops[IncomingIdx(phi, from)]) ELSE Undef
\* all phis of block `to` read their incoming for `from` at once
EnterPhis(G, env, from, to) ==
  LET ids == {G.insts[to][k].id : k \in PhiIdx(G, to)}
      phiOf(x) == G.insts[to][CHOOSE k \in PhiIdx(G, to) : G.insts[to][k].id = x]
  IN [y \in DOMAIN env \cup ids |->
        IF y \in ids THEN PhiValue(phiOf(y), from, env) ELSE env[y]]
\* the switch of the dispatcher: index of the successor taken for value c
SwitchTarget(G, b, c) ==
  IF \E k \in DOMAIN G.cases[b] : G.cases[b][k] = c
  THEN (CHOOSE k \in DOMAIN G.cases[b] : G.cases[b][k] = c) + 1
  ELSE 1

IdleRt(inv, mem, saved) ==
  [inv |-> inv, active |-> FALSE, cur |-> 0, prev |-> 0, ip |-> 0,
   m |-> [env |-> EmptyMap, mem |-> mem, heap |-> EmptyMap],
   mO |-> [env |-> EmptyMap, mem |-> FreshMem(0), heap |-> EmptyMap],
   lastO |-> 0, trace |-> <<>>, entryId |-> 0,
   saved |-> saved, savedEarlier |-> FALSE, restoredVals |-> {},
   badUse |-> FALSE, diverged |-> FALSE, hbEntry |-> mem[HEARTBEAT],
   saveRuns |-> 0, writer |-> [k \in MemSlots |-> 0]]

-----------------------------------------------------------------------------
VARIABLES
  operandList,   \* the operands of a function in the order getFuncValuePtrsMap scans them
  operandPos,    \* position of the scan
  valuePtrsMap,  \* name -> value map built by the scan
  checkpointIDCounter, \* counter of the loop of getCheckpointIdBBMap
  topoIter,      \* iterator of that loop: the entry it is at, 0 at the end
  funcIdx,       \* position of the loop over M.getFunctionList()
  earlierChanged, \* some function the loop has left differs from what it was
  F0,            \* the function as given to the pass
  F,             \* the function, mutated in place
  an,            \* analysis inputs and properties of the function
  pc,            \* position in injectSubroutines / in the interpreter
  outcome,       \* why the pass left the function
  isModified,
  bbCheckpoints,
  newBBs,
  restoreControllerBB,
  restoreControllerSuccessor,
  saveBBcheckpointBBMap,
  checkpointBBTopoMap,
  cur,           \* locals of the checkpoint being instrumented
  liveOutMaps,   \* funcSaveBBsLiveOutMap, funcRestoreBBsLiveOutMap, funcJunctionBBsLiveOutMap
  funcJunctionBBPhiValsMap,
  q,             \* request queue of propagateRestoredValuesBFS
  visitedBBs,
  lastCall,      \* the last call of processUpdateRequest: its arguments and what it met
  ckptIDsCkptToposMap,
  rt,            \* interpreter state
  bbTrackedVals, \* map.at(&F) of ModuleTransformationPass: its entries in key order
  defaultMinValsCount,
  hasInjectedSubroutinesForFunc,
  saveBBsList,   \* number of save blocks the last turn of the retry loop inserted
  instList,      \* the instructions of a block in front of its terminator
  condi,         \* the condition of the terminator
  cmp_instr,     \* the compare found, 0 for nullptr
  iters          \* turns the search loop has taken, modulo MaxIters

passVars == <<F, pc, outcome, isModified, bbCheckpoints, newBBs, restoreControllerBB,
              restoreControllerSuccessor, saveBBcheckpointBBMap, checkpointBBTopoMap,
              cur, liveOutMaps, funcJunctionBBPhiValsMap, q, visitedBBs,
              ckptIDsCkptToposMap>>
mtpVars == <<bbTrackedVals, defaultMinValsCount, hasInjectedSubroutinesForFunc,
             saveBBsList, instList, condi, cmp_instr, iters>>
unitVars == <<operandList, operandPos, valuePtrsMap, checkpointIDCounter, topoIter, mtpVars>>
vars == <<unitVars, funcIdx, earlierChanged, F0, an, passVars, lastCall, rt>>

\* ModuleTransformationPass::injectSubroutines is not running
MtpIdle ==
  /\ bbTrackedVals = <<>> /\ defaultMinValsCount = 1
  /\ hasInjectedSubroutinesForFunc = FALSE /\ saveBBsList = 0
  /\ instList = <<>> /\ condi = 0 /\ cmp_instr = 0 /\ iters = 0

NoCur == [checkpointBB |-> 0, saveBB |-> 0, junctionBB |-> 0, restoreBB |-> 0,
          resumeBB |-> 0, trackedVals |-> <<>>, todo |-> <<>>]

\* what the analysis files and the signature say about function f0
AnalysisOf(f0, hasTracked, hasLive, hasCkptMem, linkOnce, nested) ==
  [liveOut |-> LiveOutOf(f0),
   tracked |-> [b \in Blocks(f0) |-> LiveOutOf(f0)[b] \ {ArgVal}],
   ptr |-> PointerVals(f0),
   nestedPtr |-> IF nested THEN PointerVals(f0) ELSE {},
   hasTracked |-> hasTracked, hasLive |-> hasLive,
   hasCkptMem |-> hasCkptMem, linkOnce |-> linkOnce]

\* processUpdateRequest has not been called for the tracked value at hand
NoCall == [called |-> FALSE]
\* the calls of the running BFS that were made on its start block
StartVisitsSoFar(c) == IF c.called THEN c.startVisits ELSE 0
\* the blocks the running BFS has put a new phi into, one entry per phi
NewPhiBBsSoFar(c) == IF c.called THEN c.newPhiBBs ELSE <<>>

\* the functions a module can hold, each with its analysis data
Inputs ==
  UNION {{[f |-> WithCallees(g, nm),
           an |-> AnalysisOf(WithCallees(g, nm), fl[1], fl[2], fl[3], fl[4], fl[5])]
          : nm \in [CallSites(g) -> CalleeNames],
            fl \in BOOLEAN \X BOOLEAN \X BOOLEAN \X BOOLEAN \X BOOLEAN}
         : g \in Programs}

\* between two functions the loop holds no function
NoFunc == MkFunc(<< <<>> >>, << <<>> >>)
NoAnalysis == AnalysisOf(NoFunc, FALSE, FALSE, FALSE, FALSE, FALSE)

\* everything declared in the body of the loop over the functions
locals == <<outcome, bbCheckpoints, newBBs, restoreControllerBB, restoreControllerSuccessor,
            saveBBcheckpointBBMap, checkpointBBTopoMap, cur, liveOutMaps,
            funcJunctionBBPhiValsMap, q, visitedBBs, ckptIDsCkptToposMap>>

Init ==
  /\ operandList = <<>> /\ operandPos = 1 /\ valuePtrsMap = EmptyMap
  /\ checkpointIDCounter = 1 /\ topoIter = 0
  /\ MtpIdle
  /\ funcIdx = 1
  /\ earlierChanged = FALSE
  /\ \E x \in Inputs : F0 = x.f /\ an = x.an
  /\ F = F0
  /\ pc = "start"
  /\ isModified = FALSE
  /\ outcome = ""
  /\ bbCheckpoints = EmptyMap
  /\ newBBs = {}
  /\ restoreControllerBB = 0
  /\ restoreControllerSuccessor = 0
  /\ saveBBcheckpointBBMap = EmptyMap
  /\ checkpointBBTopoMap = EmptyMap
  /\ cur = NoCur
  /\ liveOutMaps = [save |-> EmptyMap, restore |-> EmptyMap, junction |-> EmptyMap]
  /\ funcJunctionBBPhiValsMap = EmptyMap
  /\ q = <<>>
  /\ visitedBBs = EmptyMap
  /\ lastCall = NoCall
  /\ ckptIDsCkptToposMap = EmptyMap
  /\ rt = IdleRt(0, FreshMem(0), EmptyMap)

\* line 824: the turn of a function is over (`continue`, or the end of the
\* loop body) and the loop advances
EndOfTurn ==
  /\ pc = "end"
  /\ funcIdx < NumFuncs
  /\ rt.inv = 0
  /\ pc' = "next_function"
  /\ funcIdx' = funcIdx + 1
  /\ earlierChanged' = (earlierChanged \/ F # F0)
  /\ F0' = NoFunc /\ F' = NoFunc /\ an' = NoAnalysis
  /\ outcome' = ""
  /\ bbCheckpoints' = EmptyMap
  /\ newBBs' = {}
  /\ restoreControllerBB' = 0
  /\ restoreControllerSuccessor' = 0
  /\ saveBBcheckpointBBMap' = EmptyMap
  /\ checkpointBBTopoMap' = EmptyMap
  /\ cur' = NoCur
  /\ liveOutMaps' = [save |-> EmptyMap, restore |-> EmptyMap, junction |-> EmptyMap]
  /\ funcJunctionBBPhiValsMap' = EmptyMap
  /\ q' = <<>>
  /\ visitedBBs' = EmptyMap
  /\ lastCall' = NoCall
  /\ ckptIDsCkptToposMap' = EmptyMap
  /\ UNCHANGED <<unitVars, isModified, rt>>

\* line 824: the next function of the module enters the loop body
NextFunction ==
  /\ pc = "next_function"
  /\ \E x \in Inputs : F0' = x.f /\ F' = x.f /\ an' = x.an
  /\ pc' = "start"
  /\ UNCHANGED <<unitVars, funcIdx, earlierChanged, lastCall, isModified, locals, rt>>

\* the function is left (`continue` in the loop over the module's functions)
Leave(why) == pc' = "end" /\ outcome' = why

\* lines 824-903: the skip tests and the choice of the checkpoint blocks
SelectCandidates ==
  /\ pc = "start"
  /\ IF an.linkOnce THEN Leave("linkonce") /\ UNCHANGED <<F, bbCheckpoints>>
     ELSE IF ~an.hasTracked THEN Leave("no_tracked_data") /\ UNCHANGED <<F, bbCheckpoints>>
     ELSE IF ~an.hasCkptMem THEN Leave("no_ckpt_mem") /\ UNCHANGED <<F, bbCheckpoints>>
     ELSE IF Len(getBBSuccessors(F, 1)) < 1
       THEN Leave("single_block") /\ UNCHANGED <<F, bbCheckpoints>>
     ELSE LET f1 == getBBsWithOneSuccessor(F, an.tracked)
              f2 == removeNestedPtrTrackedVals(f1, an.nestedPtr)
              f3 == removeBBsWithNoTrackedVals(f2)
              r == chooseBBWithCheckpointDirective(F, f3)
          IN IF ScansNullCallee(F, f3)
             THEN /\ pc' = "crashed" /\ outcome' = "crashed"
                  /\ UNCHANGED <<F, bbCheckpoints>>
             ELSE /\ F' = r.g
                  /\ bbCheckpoints' = r.cp
                  /\ IF DOMAIN r.cp = {} THEN Leave("no_candidates")
                     ELSE pc' = "split_controller" /\ outcome' = outcome
  /\ UNCHANGED <<unitVars, funcIdx, earlierChanged, lastCall, F0, an, rt, isModified, newBBs, restoreControllerBB,
                 restoreControllerSuccessor, saveBBcheckpointBBMap, checkpointBBTopoMap,
                 cur, liveOutMaps, funcJunctionBBPhiValsMap, q, visitedBBs,
                 ckptIDsCkptToposMap>>

\* lines 905-924: the dispatcher block on the edge entry -> first successor
SplitController ==
  /\ pc = "split_controller"
  /\ \E o \in SplitOutcomes(F, 1, F.succ[1][1]) :
       IF o = "ok"
       THEN LET r == splitEdgeWrapper(F, 1, F.succ[1][1], <<"restoreControllerBB", 0, 0>>)
            IN /\ F' = r.g
               /\ restoreControllerBB' = r.bb
               /\ isModified' = TRUE
               /\ restoreControllerSuccessor' = getSingleSuccessor(r.g, r.bb)
               /\ newBBs' = newBBs \cup {r.bb}
               /\ pc' = "checkpoint_loop"
               /\ outcome' = outcome
       ELSE /\ IF o = "null" THEN Leave("controller_split_failed")
               ELSE pc' = "crashed" /\ outcome' = "crashed"
            /\ UNCHANGED <<F, restoreControllerBB, isModified,
                           restoreControllerSuccessor, newBBs>>
  /\ UNCHANGED <<unitVars, funcIdx, earlierChanged, lastCall, F0, an, rt, bbCheckpoints, saveBBcheckpointBBMap, checkpointBBTopoMap,
                 cur, liveOutMaps, funcJunctionBBPhiValsMap, q, visitedBBs,
                 ckptIDsCkptToposMap>>

\* lines 943-965: the first checkpoint block of checkpointBBPtrSet (a set
\* ordered by address; the loop breaks after one block) gets its saveBB
AddSaveBB ==
  /\ pc = "checkpoint_loop"
  /\ \E checkpointBB \in getCkptBBsInFunc(F, bbCheckpoints) :
       LET successorBB == getBBSuccessors(F, checkpointBB)[1]
       IN \E o \in SplitOutcomes(F, checkpointBB, successorBB) :
            IF o = "ok"
            THEN LET r == splitEdgeWrapper(F, checkpointBB, successorBB,
                                           <<"saveBB", checkpointBB, 0>>)
                 IN /\ F' = r.g
                    /\ saveBBcheckpointBBMap' = saveBBcheckpointBBMap @@ (r.bb :> checkpointBB)
                    /\ newBBs' = newBBs \cup {r.bb}
                    /\ cur' = [cur EXCEPT !.checkpointBB = checkpointBB, !.saveBB = r.bb]
                    /\ pc' = "add_junction"
                    /\ outcome' = outcome
            ELSE /\ IF o = "null" THEN pc' = "add_ids" /\ outcome' = outcome
                    ELSE pc' = "crashed" /\ outcome' = "crashed"
                 /\ cur' = [cur EXCEPT !.checkpointBB = checkpointBB]
                 /\ UNCHANGED <<F, saveBBcheckpointBBMap, newBBs>>
  /\ UNCHANGED <<unitVars, funcIdx, earlierChanged, lastCall, F0, an, rt, isModified, bbCheckpoints, restoreControllerBB,
                 restoreControllerSuccessor, checkpointBBTopoMap, liveOutMaps,
                 funcJunctionBBPhiValsMap, q, visitedBBs, ckptIDsCkptToposMap>>

\* BasicBlock::Create(.., &F, nullptr) followed by BranchInst::Create(target, bb)
CreateBlock(G, target, nm) ==
  [succ |-> Append(G.succ, <<target>>),
   insts |-> Append(G.insts, <<>>),
   cases |-> Append(G.cases, <<>>),
   cond |-> Append(G.cond, 0),
   name |-> Append(G.name, nm)]

\* lines 967-999: junctionBB on the edge saveBB -> resumeBB, and restoreBB
AddJunctionBB ==
  /\ pc = "add_junction"
  /\ LET checkpointBB == cur.checkpointBB
         saveBB == cur.saveBB
         resumeBB == getBBSuccessors(F, saveBB)[1]
     IN \E o \in SplitOutcomes(F, saveBB, resumeBB) :
          IF o = "ok"
          THEN LET r == splitEdgeWrapper(F, saveBB, resumeBB, <<"junctionBB", checkpointBB, 0>>)
                   junctionBB == r.bb
                   restoreBB == NewBlock(r.g)
                   checkpointTopo == [checkpointBB |-> checkpointBB, saveBB |-> saveBB,
                                      restoreBB |-> restoreBB, junctionBB |-> junctionBB,
                                      resumeBB |-> resumeBB]
               IN /\ F' = CreateBlock(r.g, junctionBB, <<"restoreBB", checkpointBB, 0>>)
                  /\ checkpointBBTopoMap' =
                       IF checkpointBB \in DOMAIN checkpointBBTopoMap THEN checkpointBBTopoMap
                       ELSE checkpointBBTopoMap @@ (checkpointBB :> checkpointTopo)
                  /\ newBBs' = newBBs \cup {restoreBB, junctionBB}
                  /\ cur' = [cur EXCEPT !.junctionBB = junctionBB, !.restoreBB = restoreBB,
                                        !.resumeBB = resumeBB]
                  /\ saveBBcheckpointBBMap' = saveBBcheckpointBBMap
                  /\ pc' = "populate"
                  /\ outcome' = outcome
          ELSE /\ IF o = "null"
                  THEN /\ saveBBcheckpointBBMap' =
                            [b \in DOMAIN saveBBcheckpointBBMap \ {saveBB} |->
                               saveBBcheckpointBBMap[b]]
                       /\ pc' = "add_ids" /\ outcome' = outcome
                  ELSE /\ pc' = "crashed" /\ outcome' = "crashed"
                       /\ saveBBcheckpointBBMap' = saveBBcheckpointBBMap
               /\ UNCHANGED <<F, checkpointBBTopoMap, newBBs, cur>>
  /\ UNCHANGED <<unitVars, funcIdx, earlierChanged, lastCall, F0, an, rt, isModified, bbCheckpoints, restoreControllerBB,
                 restoreControllerSuccessor, liveOutMaps, funcJunctionBBPhiValsMap,
                 q, visitedBBs, ckptIDsCkptToposMap>>

-----------------------------------------------------------------------------
(* Marshaller *)

AllIds(G) == UNION {{G.insts[b][i].id : i \in DOMAIN G.insts[b]} : b \in Blocks(G)}
MaxOf(S) == CHOOSE x \in S : \A y \in S : y <= x
\* a value no instruction of G has yet
NextVal(G) == MaxOf(AllIds(G) \cup {99}) + 1

Orderings(S) ==
  {s \in [1..Cardinality(S) -> S] : \A i, j \in DOMAIN s : i # j => s[i] # s[j]}

\* lines 1016-1087 for the i-th tracked value v: the ids of the instructions
\* created are base (deref), base+1 (load), base+2 (alloca), base+3 (phi)
\* the value itself is stored, pointer or not
SaveInstsNoDeref(v, slot, base, isPointer) == <<SlotInst(0, "ckstore", <<v>>, slot, 0)>>

SaveInsts(v, slot, base, isPointer) ==
  IF isPointer
  THEN <<Inst(base, "load", <<v>>), SlotInst(0, "ckstore", <<base>>, slot, 0)>>
  ELSE <<SlotInst(0, "ckstore", <<v>>, slot, 0)>>
\* every value is loaded from the first value slot: the index is not advanced
RestoreInstsFirstSlot(v, slot, base, isPointer) ==
  IF isPointer
  THEN <<SlotInst(base + 1, "ckload", <<>>, VALUES_START, 0), Inst(base + 2, "alloca", <<>>),
         Inst(0, "store", <<base + 1, base + 2>>)>>
  ELSE <<SlotInst(base + 1, "ckload", <<>>, VALUES_START, 0)>>
RestoreInsts(v, slot, base, isPointer) ==
  IF isPointer
  THEN <<SlotInst(base + 1, "ckload", <<>>, slot, 0), Inst(base + 2, "alloca", <<>>),
         Inst(0, "store", <<base + 1, base + 2>>)>>
  ELSE <<SlotInst(base + 1, "ckload", <<>>, slot, 0)>>
RestoredVal(base, isPointer) == IF isPointer THEN base + 2 ELSE base + 1
\* the junction phi without its incoming from the restore block
JunctionPhiSaveOnly(v, base, isPointer, saveBB, restoreBB) ==
  PhiInst(base + 3, <<v>>, <<saveBB>>)
JunctionPhi(v, base, isPointer, saveBB, restoreBB) ==
  PhiInst(base + 3, <<v, RestoredVal(base, isPointer)>>, <<saveBB, restoreBB>>)

RECURSIVE Marshal(_, _, _, _, _, _)
Marshal(G, c, vals, i, base, ptr) ==
  IF i > Len(vals) THEN G
  ELSE LET v == vals[i]
           slot == VALUES_START + (i - 1)
           b == base + 4 * (i - 1)
           isPointer == v \in ptr
           g == [G EXCEPT
                   !.insts[c.saveBB] = @ \o SaveInsts(v, slot, b, isPointer),
                   !.insts[c.restoreBB] = @ \o RestoreInsts(v, slot, b, isPointer),
                   !.insts[c.junctionBB] =
                       Append(@, JunctionPhi(v, b, isPointer, c.saveBB, c.restoreBB))]
       IN Marshal(g, c, vals, i + 1, base, ptr)

\* lines 1004-1102: save / restore / junction blocks are populated, their
\* live-out sets recorded, and IS_COMPLETE := 1 stored in saveBB
PopulateBBs ==
  /\ pc = "populate"
  /\ \E vals \in Orderings(bbCheckpoints[cur.checkpointBB]) :
       LET base == NextVal(F)
           g == Marshal(F, cur, vals, 1, base, an.ptr)
           set == Range(vals)
       IN /\ F' = [g EXCEPT !.insts[cur.saveBB] =
                      Append(@, SlotInst(0, "ckstore", <<>>, IS_COMPLETE, 1))]
          /\ liveOutMaps' = [save |-> liveOutMaps.save @@ (cur.saveBB :> set),
                             restore |-> liveOutMaps.restore @@ (cur.restoreBB :> set),
                             junction |-> liveOutMaps.junction @@ (cur.junctionBB :> set)]
          /\ funcJunctionBBPhiValsMap' =
               funcJunctionBBPhiValsMap @@
                 (cur.junctionBB :> [v \in set |->
                     base + 4 * ((CHOOSE i \in DOMAIN vals : vals[i] = v) - 1) + 3])
          /\ cur' = [cur EXCEPT !.trackedVals = vals, !.todo = vals]
  /\ pc' = "propagate"
  /\ UNCHANGED <<unitVars, funcIdx, earlierChanged, lastCall, F0, an, rt, outcome, isModified, bbCheckpoints, newBBs,
                 restoreControllerBB, restoreControllerSuccessor, saveBBcheckpointBBMap,
                 checkpointBBTopoMap, q, visitedBBs, ckptIDsCkptToposMap>>

-----------------------------------------------------------------------------
(* SSA repair: propagateRestoredValuesBFS / processUpdateRequest *)

\* the emplace without the erase before it: a key already present keeps its set
updateMapEntryNoErase(key, newVal, map) ==
  IF key \in DOMAIN map THEN map ELSE map @@ (key :> newVal)

\* every entry of the map overwritten
updateEveryEntry(key, newVal, map) == [k \in DOMAIN map \cup {key} |-> newVal]

getOrDefault(key, map) == IF key \in DOMAIN map THEN map ELSE map @@ (key :> {})

updateMapEntry(key, newVal, map) ==
  [k \in DOMAIN map \cup {key} |-> IF k = key THEN newVal ELSE map[k]]

\* the live-out set numOfPredsWhereVarIsLiveOut finds for a predecessor
PredLiveOutSet(pred, lm, live) ==
  IF pred \in DOMAIN lm.junction THEN lm.junction[pred]
  ELSE IF pred \in DOMAIN lm.save THEN lm.save[pred]
  ELSE IF pred \in DOMAIN lm.restore THEN lm.restore[pred]
  ELSE IF pred \in DOMAIN live THEN live[pred]
  ELSE {}

numOfPredsWhereVarIsLiveOut(G, BB, val, lm, live) ==
  Cardinality({e \in PredEdges(G, BB) : val \in PredLiveOutSet(e[1], lm, live)})

\* funcBBLiveValsMap.at(F) is evaluated for a predecessor that is no save,
\* restore or junction block
ReadsLiveMap(G, BB, lm) ==
  \E e \in PredEdges(G, BB) :
    e[1] \notin DOMAIN lm.junction \cup DOMAIN lm.save \cup DOMAIN lm.restore

isPhiInstExistForIncomingBBForTrackedVal(valueVersions, G, currBB, prevBB) ==
  \E k \in DOMAIN G.insts[currBB] :
    /\ G.insts[currBB][k].kind = "phi"
    /\ \E i \in DOMAIN G.insts[currBB][k].ops :
         /\ G.insts[currBB][k].blks[i] = prevBB
         /\ G.insts[currBB][k].ops[i] \in valueVersions

\* the instruction with its operands left as they are
keepOperandsOfInst(inst, oldVal, newVal) == inst

replaceOperandsInInst(inst, oldVal, newVal) ==
  [inst EXCEPT !.ops = ReplaceAll(inst.ops, oldVal, newVal)]

\* every incoming value of the phi set, whatever its block
setEveryIncomingValue(phi, BB, V) == [phi EXCEPT !.ops = [i \in DOMAIN phi.ops |-> V]]

setIncomingValueForBlock(phi, BB, V) ==
  [phi EXCEPT !.ops = [i \in DOMAIN phi.ops |-> IF phi.blks[i] = BB THEN V ELSE phi.ops[i]]]

\* lines 1318-1347 for one instruction of currBB
PhiToModify(inst, prevBB, newVal, valueVersions) ==
  /\ inst.kind = "phi"
  /\ \E i \in DOMAIN inst.ops :
       inst.blks[i] = prevBB /\ inst.ops[i] \in valueVersions /\ inst.ops[i] # newVal

\* the join test without the test for a new block
IsJoinOfAnyBlock(G, req, nbbs, lm, live) ==
  /\ hasNPredecessorsOrMore(G, req.currBB, 2)
  /\ 1 < numOfPredsWhereVarIsLiveOut(G, req.currBB, req.oldVal, lm, live)

IsJoin(G, req, nbbs, lm, live) ==
  /\ req.currBB \notin nbbs
  /\ hasNPredecessorsOrMore(G, req.currBB, 2)
  /\ 1 < numOfPredsWhereVarIsLiveOut(G, req.currBB, req.oldVal, lm, live)

Request(startBB, currBB, prevBB, oldVal, newVal, valueVersions) ==
  [startBB |-> startBB, currBB |-> currBB, prevBB |-> prevBB, oldVal |-> oldVal,
   newVal |-> newVal, valueVersions |-> valueVersions]

\* requests for the successors of currBB other than currBB itself
SuccessorRequests(G, req, newVal, valueVersions) ==
  LET ss == SelectSeq(getBBSuccessors(G, req.currBB), LAMBDA x : x # req.currBB)
  IN [i \in DOMAIN ss |->
        Request(req.startBB, ss[i], req.currBB, req.oldVal, newVal, valueVersions)]

\* the test left out: no instruction counts as a definition of a version
definesNoVersion(insts, valueVersions) == FALSE

\* lines 1381, 1414: `valueVersions.count(inst)` is true of an instruction of
\* the block
definesVersion(insts, valueVersions) ==
  \E k \in DOMAIN insts : insts[k].id \in valueVersions

\* The function, the visited map and the requests pushed by one call, with
\* the value of isStop at line 1305 and the branch taken at lines 1306-1440.
processUpdateRequest(G, req, nbbs, visited, lm, live) ==
  LET currBB == req.currBB
      prevBB == req.prevBB
      oldVal == req.oldVal
      newVal == req.newVal
      valueVersions == req.valueVersions
      insts == G.insts[currBB]
      isStop0 == (currBB = req.startBB /\ currBB \in DOMAIN visited)
                 \/ Len(G.succ[currBB]) = 0
      vis0 == getOrDefault(currBB, visited)
      bbValueVersions == vis0[currBB]
      isAllContained == \A x \in bbValueVersions : x \in valueVersions
      isStop1 == isStop0 \/ (isAllContained
                             /\ Cardinality(bbValueVersions) = Cardinality(valueVersions))
  IN IF IsJoin(G, req, nbbs, lm, live)
     THEN IF isPhiInstExistForIncomingBBForTrackedVal(valueVersions, G, currBB, prevBB)
          THEN \* modify the existing phi(s); nothing is enqueued
               LET hit == \E k \in DOMAIN insts : PhiToModify(insts[k], prevBB, newVal, valueVersions)
               IN [g |-> [G EXCEPT !.insts[currBB] =
                            [k \in DOMAIN insts |->
                               IF PhiToModify(insts[k], prevBB, newVal, valueVersions)
                               THEN setIncomingValueForBlock(insts[k], prevBB, newVal)
                               ELSE insts[k]]],
                   vis |-> IF hit
                           THEN updateMapEntry(currBB, bbValueVersions \cup valueVersions, vis0)
                           ELSE vis0,
                   push |-> <<>>, isStop |-> isStop1, branch |-> "modify_phi"]
          ELSE \* add a new phi as first instruction of currBB
               LET predecessors == getBBPredecessors(G, currBB)
                   newPhi == NextVal(G)
                   phiInst == PhiInst(newPhi,
                                [i \in DOMAIN predecessors |->
                                   IF predecessors[i] = prevBB THEN newVal ELSE oldVal],
                                predecessors)
                   vv1 == valueVersions \cup Range(phiInst.ops)
                   isStop == isStop1 \/ definesVersion(insts, vv1)
                   vv2 == vv1 \cup {newPhi}
               IN [g |-> [G EXCEPT !.insts[currBB] =
                            <<phiInst>> \o
                            [k \in DOMAIN insts |-> replaceOperandsInInst(insts[k], oldVal, newPhi)]],
                   vis |-> updateMapEntry(currBB, bbValueVersions \cup vv2, vis0),
                   push |-> IF isStop THEN <<>> ELSE SuccessorRequests(G, req, newPhi, vv2),
                   isStop |-> isStop1, branch |-> "new_phi"]
     ELSE \* no join: rewrite the operands of currBB
          LET isStop == isStop1 \/ definesVersion(insts, valueVersions)
              vv1 == valueVersions \cup {newVal}
          IN [g |-> [G EXCEPT !.insts[currBB] =
                       [k \in DOMAIN insts |-> replaceOperandsInInst(insts[k], oldVal, newVal)]],
              vis |-> updateMapEntry(currBB, bbValueVersions \cup vv1, vis0),
              push |-> IF isStop THEN <<>> ELSE SuccessorRequests(G, req, newVal, vv1),
              isStop |-> isStop1, branch |-> "rewrite"]

\* lines 1107-1122, 1237-1252: the BFS for the next tracked value starts
StartPropagation ==
  /\ pc = "propagate"
  /\ cur.todo # <<>>
  /\ LET trackedVal == Head(cur.todo)
         phi == funcJunctionBBPhiValsMap[cur.junctionBB][trackedVal]
     IN q' = <<Request(cur.resumeBB, cur.resumeBB, cur.junctionBB, trackedVal, phi,
                       {trackedVal, phi})>>
  /\ visitedBBs' = EmptyMap
  /\ lastCall' = NoCall
  /\ pc' = "bfs"
  /\ UNCHANGED <<unitVars, funcIdx, earlierChanged, F0, an, rt, F, outcome, isModified, bbCheckpoints, newBBs,
                 restoreControllerBB, restoreControllerSuccessor, saveBBcheckpointBBMap,
                 checkpointBBTopoMap, cur, liveOutMaps, funcJunctionBBPhiValsMap,
                 ckptIDsCkptToposMap>>

\* lines 1254-1261: one iteration of the while loop over the queue
ProcessRequest ==
  /\ pc = "bfs"
  /\ q # <<>>
  /\ LET req == Head(q)
     IN IF /\ req.currBB \notin newBBs
           /\ hasNPredecessorsOrMore(F, req.currBB, 2)
           /\ ReadsLiveMap(F, req.currBB, liveOutMaps)
           /\ ~an.hasLive
        THEN \* funcBBLiveValsMap.at(F) throws std::out_of_range
             /\ pc' = "crashed" /\ outcome' = "crashed"
             /\ UNCHANGED <<F, visitedBBs, q, cur, lastCall>>
        ELSE LET r == processUpdateRequest(F, req, newBBs, visitedBBs, liveOutMaps, an.liveOut)
                 nq == Tail(q) \o r.push
             IN /\ F' = r.g
                /\ visitedBBs' = r.vis
                /\ lastCall' = [called |-> TRUE, req |-> req, F |-> F, visitedBBs |-> visitedBBs,
                                isStop |-> r.isStop, branch |-> r.branch, push |-> r.push,
                                startVisits |-> StartVisitsSoFar(lastCall)
                                                + (IF req.currBB = req.startBB THEN 1 ELSE 0),
                                newPhiBBs |-> NewPhiBBsSoFar(lastCall)
                                              \o (IF r.branch = "new_phi" THEN <<req.currBB>>
                                                  ELSE <<>>)]
                /\ q' = nq
                /\ outcome' = outcome
                /\ IF nq = <<>>
                   THEN pc' = "propagate" /\ cur' = [cur EXCEPT !.todo = Tail(@)]
                   ELSE pc' = pc /\ cur' = cur
  /\ UNCHANGED <<unitVars, funcIdx, earlierChanged, F0, an, rt, isModified, bbCheckpoints, newBBs, restoreControllerBB,
                 restoreControllerSuccessor, saveBBcheckpointBBMap, checkpointBBTopoMap,
                 liveOutMaps, funcJunctionBBPhiValsMap, ckptIDsCkptToposMap>>

\* the loop over the checkpoint blocks goes on to another block
EndCheckpointNoBreak ==
  /\ pc = "propagate"
  /\ cur.todo = <<>>
  /\ newBBs' = newBBs \ {cur.saveBB, cur.restoreBB, cur.junctionBB}
  /\ lastCall' = NoCall
  /\ pc' = IF DOMAIN bbCheckpoints \subseteq DOMAIN checkpointBBTopoMap
           THEN "add_ids" ELSE "checkpoint_loop"
  /\ UNCHANGED <<unitVars, funcIdx, earlierChanged, F0, an, rt, F, outcome, isModified, bbCheckpoints, restoreControllerBB,
                 restoreControllerSuccessor, saveBBcheckpointBBMap, checkpointBBTopoMap,
                 cur, liveOutMaps, funcJunctionBBPhiValsMap, q, visitedBBs,
                 ckptIDsCkptToposMap>>

\* lines 1124-1129: the checkpoint is done and the loop over checkpoints left
EndCheckpoint ==
  /\ pc = "propagate"
  /\ cur.todo = <<>>
  /\ newBBs' = newBBs \ {cur.saveBB, cur.restoreBB, cur.junctionBB}
  /\ lastCall' = NoCall
  /\ pc' = "add_ids"
  /\ UNCHANGED <<unitVars, funcIdx, earlierChanged, F0, an, rt, F, outcome, isModified, bbCheckpoints, restoreControllerBB,
                 restoreControllerSuccessor, saveBBcheckpointBBMap, checkpointBBTopoMap,
                 cur, liveOutMaps, funcJunctionBBPhiValsMap, q, visitedBBs,
                 ckptIDsCkptToposMap>>

-----------------------------------------------------------------------------
(* Dispatcher finalizer *)

\* lines 1582-1601: ids from an 8 bit counter that starts at 1, in the
\* iteration order of the topo map; emplace keeps an id already present
RECURSIVE AssignIds(_, _, _)
AssignIds(topos, counter, checkpointIdBBMap) ==
  IF topos = <<>> THEN checkpointIdBBMap
  ELSE AssignIds(Tail(topos), (counter + 1) % 256,
                 IF counter \in DOMAIN checkpointIdBBMap
                 THEN checkpointIdBBMap
                 ELSE checkpointIdBBMap @@ (counter :> Head(topos)))

TopoSeq(topoMap) ==
  LET ks == SetToSeq(DOMAIN topoMap) IN [i \in DOMAIN ks |-> topoMap[ks[i]]]

getCheckpointIdBBMap(topoMap) == AssignIds(TopoSeq(topoMap), 1, EmptyMap)

\* the counter value at which each topo is visited is appended to the names
\* of its save, restore and junction block
RenameWithIds(G, topoMap) ==
  LET ts == TopoSeq(topoMap)
      idOf(b) == CHOOSE i \in DOMAIN ts : b \in {ts[i].saveBB, ts[i].restoreBB, ts[i].junctionBB}
      named == UNION {{ts[i].saveBB, ts[i].restoreBB, ts[i].junctionBB} : i \in DOMAIN ts}
  IN [G EXCEPT !.name = [b \in Blocks(G) |->
        IF b \in named THEN <<G.name[b][1], G.name[b][2], idOf(b) % 256>> ELSE G.name[b]]]

\* the incremented heartbeat is not stored back
HeartbeatInstsNoStore(base) ==
  <<SlotInst(base, "ckload", <<>>, HEARTBEAT, 0), Inst(base + 1, "add1", <<base>>)>>
\* load, add 1, store on the HEARTBEAT slot
HeartbeatInsts(base) ==
  <<SlotInst(base, "ckload", <<>>, HEARTBEAT, 0), Inst(base + 1, "add1", <<base>>),
    SlotInst(0, "ckstore", <<base + 1>>, HEARTBEAT, 0)>>

RECURSIVE AddIdInsts(_, _, _)
AddIdInsts(G, idMap, ids) ==
  IF ids = <<>> THEN G
  ELSE LET ckpt_id == Head(ids)
           t == idMap[ckpt_id]
           base == NextVal(G)
           g == [G EXCEPT
                   !.insts[t.saveBB] = (@ \o <<SlotInst(0, "ckstore", <<>>, CKPT_ID, ckpt_id)>>)
                                       \o HeartbeatInsts(base),
                   !.insts[t.restoreBB] = @ \o HeartbeatInsts(base + 2)]
       IN AddIdInsts(g, idMap, Tail(ids))

\* lines 1132-1177
AddCheckpointIds ==
  /\ pc = "add_ids"
  /\ LET idMap == getCheckpointIdBBMap(checkpointBBTopoMap)
     IN /\ ckptIDsCkptToposMap' = idMap
        /\ F' = AddIdInsts(RenameWithIds(F, checkpointBBTopoMap), idMap, SetToSeq(DOMAIN idMap))
  /\ pc' = "add_switch"
  /\ UNCHANGED <<unitVars, funcIdx, earlierChanged, lastCall, F0, an, rt, outcome, isModified, bbCheckpoints, newBBs,
                 restoreControllerBB, restoreControllerSuccessor, saveBBcheckpointBBMap,
                 checkpointBBTopoMap, cur, liveOutMaps, funcJunctionBBPhiValsMap, q,
                 visitedBBs>>

\* a switch with its default destination only: no addCase
InstallSwitchNoCases(G, rc, defaultBB, idMap) ==
  LET cid == NextVal(G)
  IN [G EXCEPT
        !.insts[rc] = Append(@, SlotInst(cid, "ckload", <<>>, CKPT_ID, 0)),
        !.succ[rc] = <<defaultBB>>,
        !.cond[rc] = cid]
\* a switch whose default destination is the first restore block
InstallSwitchDefaultRestore(G, rc, defaultBB, idMap) ==
  LET ids == SetToSeq(DOMAIN idMap)
      cid == NextVal(G)
      rs == [i \in DOMAIN ids |-> idMap[ids[i]].restoreBB]
  IN [G EXCEPT
        !.insts[rc] = Append(@, SlotInst(cid, "ckload", <<>>, CKPT_ID, 0)),
        !.succ[rc] = <<IF rs = <<>> THEN defaultBB ELSE rs[1]>> \o rs,
        !.cases[rc] = ids,
        !.cond[rc] = cid]
\* lines 1186-1206: the terminator of restoreControllerBB becomes a switch on
\* the loaded CKPT_ID slot
InstallSwitch(G, rc, defaultBB, idMap) ==
  LET ids == SetToSeq(DOMAIN idMap)
      cid == NextVal(G)
  IN [G EXCEPT
        !.insts[rc] = Append(@, SlotInst(cid, "ckload", <<>>, CKPT_ID, 0)),
        !.succ[rc] = <<defaultBB>> \o [i \in DOMAIN ids |-> idMap[ids[i]].restoreBB],
        !.cases[rc] = ids,
        !.cond[rc] = cid]

\* lines 1179-1222
AddSwitch ==
  /\ pc = "add_switch"
  /\ F' = InstallSwitch(F, restoreControllerBB, restoreControllerSuccessor,
                        ckptIDsCkptToposMap)
  /\ IF Cardinality(DOMAIN ckptIDsCkptToposMap) = 0 THEN Leave("no_checkpoints")
     ELSE Leave("injected")
  /\ UNCHANGED <<unitVars, funcIdx, earlierChanged, lastCall, F0, an, rt, isModified, bbCheckpoints, newBBs, restoreControllerBB,
                 restoreControllerSuccessor, saveBBcheckpointBBMap, checkpointBBTopoMap,
                 cur, liveOutMaps, funcJunctionBBPhiValsMap, q, visitedBBs,
                 ckptIDsCkptToposMap>>

-----------------------------------------------------------------------------
(* Running the function the pass produced.  Beside the machine m, the      *)
(* input function F0 runs in lock step on mO: every instruction of F that  *)
(* is an instruction of F0 is also executed there with F0's operands.      *)

IsOrigBlock(b) == b \in Blocks(F0)
OrigInstIdx(b, id) == {k \in DOMAIN F0.insts[b] : F0.insts[b][k].id = id}
IsOrigInst(b, I) == IsOrigBlock(b) /\ OrigInstIdx(b, I.id) # {}
OrigInst(b, I) == F0.insts[b][CHOOSE k \in OrigInstIdx(b, I.id) : TRUE]

RoleOf(b) == F.name[b][1]

\* the word a use of tracked value v sees when its operand evaluates to x
ObservedWord(v, x, heap) ==
  IF v \in an.ptr THEN (IF x \in DOMAIN heap THEN heap[x] ELSE Undef) ELSE x

\* a use by I (in F) of a restored tracked value does not see the saved word
BadOperandUse(I, I0, ks, env, heap) ==
  \E k \in ks :
    /\ I0.ops[k] \in rt.restoredVals
    /\ I0.ops[k] \in DOMAIN rt.saved
    /\ ObservedWord(I0.ops[k], Val(env, I.ops[k]), heap) # rt.saved[I0.ops[k]]

\* the function is entered with a checkpoint memory: a fresh one at first,
\* afterwards the one the previous invocation left
Invoke ==
  /\ pc = "end"
  /\ outcome = "injected"
  /\ ~rt.active
  /\ rt.inv < MaxInvocations
  /\ \E arg \in 0..(MaxWord - 1), cid \in {0, 1}, hb \in InitialHeartbeats :
       /\ rt.inv > 0 => cid = rt.m.mem[CKPT_ID] /\ hb = rt.m.mem[HEARTBEAT]
       /\ rt' = [IdleRt(rt.inv + 1,
                        IF rt.inv = 0 THEN [FreshMem(cid) EXCEPT ![HEARTBEAT] = hb]
                        ELSE rt.m.mem,
                        rt.saved)
                   EXCEPT !.active = TRUE, !.cur = 1, !.ip = 1,
                          !.m.env = (ArgVal :> arg), !.mO.env = (ArgVal :> arg),
                          !.lastO = 1, !.trace = <<1>>, !.entryId = cid,
                          !.savedEarlier = (DOMAIN rt.saved # {}),
                          !.saveRuns = rt.saveRuns, !.writer = rt.writer]
  /\ UNCHANGED <<unitVars, funcIdx, earlierChanged, lastCall, F0, an, passVars>>

\* the next non-phi instruction of the current block
ExecStep ==
  /\ rt.active
  /\ rt.ip <= Len(F.insts[rt.cur])
  /\ LET I == F.insts[rt.cur][rt.ip]
         orig == IsOrigInst(rt.cur, I)
         I0 == OrigInst(rt.cur, I)
         m1 == ExecInst(rt.m, I)
         isSave == I.kind = "ckstore" /\ RoleOf(rt.cur) = "saveBB" /\ I.slot >= VALUES_START
         v == cur.trackedVals[I.slot - VALUES_START + 1]
     IN rt' = [rt EXCEPT
                 !.ip = @ + 1,
                 !.m = m1,
                 !.mO = IF orig THEN ExecInst(@, I0) ELSE @,
                 !.diverged = @ \/ (orig /\ Vals(rt.m.env, I.ops) # Vals(rt.mO.env, I0.ops)),
                 !.badUse = @ \/ (orig /\ BadOperandUse(I, I0, DOMAIN I0.ops, rt.m.env, rt.m.heap)),
                 !.restoredVals = IF orig THEN @ \ {I.id} ELSE @,
                 !.saved = IF isSave THEN Bind(@, v, m1.mem[I.slot]) ELSE @,
                 !.writer = IF I.kind = "ckstore" /\ RoleOf(rt.cur) = "saveBB"
                            THEN [@ EXCEPT ![I.slot] = rt.saveRuns] ELSE @]
  /\ UNCHANGED <<unitVars, funcIdx, earlierChanged, lastCall, F0, an, passVars>>

\* control enters block `to` from the current block
EnterBlock(to) ==
  LET from == rt.cur
      env1 == EnterPhis(F, rt.m.env, from, to)
      origTo == IsOrigBlock(to)
      envO1 == IF origTo THEN EnterPhis(F0, rt.mO.env, rt.lastO, to) ELSE rt.mO.env
      origPhis == {k \in PhiIdx(F, to) : IsOrigInst(to, F.insts[to][k])}
      restoring == RoleOf(to) = "junctionBB" /\ RoleOf(from) = "restoreBB" /\ rt.savedEarlier
  IN [rt EXCEPT
        !.cur = to, !.prev = from,
        !.ip = Cardinality(PhiIdx(F, to)) + 1,
        !.m.env = env1,
        !.mO.env = envO1,
        !.lastO = IF origTo THEN to ELSE @,
        !.trace = Append(@, to),
        !.saveRuns = IF RoleOf(to) = "saveBB" THEN @ + 1 ELSE @,
        !.hbEntry = rt.m.mem[HEARTBEAT],
        !.diverged = @ \/ \E k \in origPhis : env1[F.insts[to][k].id] # envO1[F.insts[to][k].id],
        !.badUse = @ \/ \E k \in origPhis :
                      /\ HasIncoming(F.insts[to][k], from)
                      /\ BadOperandUse(F.insts[to][k], OrigInst(to, F.insts[to][k]),
                                       {IncomingIdx(F.insts[to][k], from)}, rt.m.env, rt.m.heap),
        !.restoredVals = IF restoring THEN Range(cur.trackedVals)
                         ELSE @ \ {F.insts[to][k].id : k \in origPhis}]

\* the terminator of the current block: a return ends the invocation, a
\* switch follows the loaded value, any other branch may go either way
Branch ==
  /\ rt.active
  /\ rt.ip > Len(F.insts[rt.cur])
  /\ IF F.succ[rt.cur] = <<>>
     THEN rt' = [IdleRt(rt.inv, rt.m.mem, rt.saved)
                   EXCEPT !.saveRuns = rt.saveRuns, !.writer = rt.writer]
     ELSE /\ Len(rt.trace) < MaxSteps
          /\ \E i \in DOMAIN F.succ[rt.cur] :
               /\ F.cond[rt.cur] # 0 =>
                    i = SwitchTarget(F, rt.cur, Val(rt.m.env, F.cond[rt.cur]))
               /\ rt' = EnterBlock(F.succ[rt.cur][i])
  /\ UNCHANGED <<unitVars, funcIdx, earlierChanged, lastCall, F0, an, passVars>>

\* execution stops (the process is killed) after any instruction
Interrupt ==
  /\ rt.active
  /\ rt' = [IdleRt(rt.inv, rt.m.mem, rt.saved)
              EXCEPT !.saveRuns = rt.saveRuns, !.writer = rt.writer]
  /\ UNCHANGED <<unitVars, funcIdx, earlierChanged, lastCall, F0, an, passVars>>

PassNext ==
  \/ EndOfTurn \/ NextFunction
  \/ SelectCandidates \/ SplitController \/ AddSaveBB \/ AddJunctionBB \/ PopulateBBs
  \/ StartPropagation \/ ProcessRequest \/ EndCheckpoint
  \/ AddCheckpointIds \/ AddSwitch

Next == PassNext \/ Invoke \/ ExecStep \/ Branch \/ Interrupt

Spec == Init /\ [][Next]_vars

\* the pass alone; the loop over the request queue keeps running
PassSpec == Init /\ [][PassNext]_vars /\ WF_vars(ProcessRequest)

-----------------------------------------------------------------------------
(* getCheckpointIdBBMap and getFuncValuePtrsMap on inputs of their own *)

\* no function is in the loop of injectSubroutines
PassIdle ==
  /\ funcIdx = 0
  /\ earlierChanged = FALSE
  /\ F0 = NoFunc /\ F = NoFunc /\ an = NoAnalysis
  /\ isModified = FALSE
  /\ outcome = ""
  /\ bbCheckpoints = EmptyMap
  /\ newBBs = {}
  /\ restoreControllerBB = 0
  /\ restoreControllerSuccessor = 0
  /\ saveBBcheckpointBBMap = EmptyMap
  /\ cur = NoCur
  /\ liveOutMaps = [save |-> EmptyMap, restore |-> EmptyMap, junction |-> EmptyMap]
  /\ funcJunctionBBPhiValsMap = EmptyMap
  /\ q = <<>>
  /\ visitedBBs = EmptyMap
  /\ lastCall = NoCall
  /\ rt = IdleRt(0, FreshMem(0), EmptyMap)

\* a checkpointBBTopoMap of n checkpoints: checkpoint block c with its save,
\* restore and junction block
TopoMapOfSize(n) ==
  [c \in 1..n |-> [checkpointBB |-> c, saveBB |-> MaxTopos + 3 * c + 1,
                   restoreBB |-> MaxTopos + 3 * c + 2, junctionBB |-> MaxTopos + 3 * c + 3,
                   resumeBB |-> c + 1]]

\* std::map::emplace with the key overwritten
emplaceOverwriting(map, key, val) ==
  [k \in DOMAIN map \cup {key} |-> IF k = key THEN val ELSE map[k]]
\* std::map::emplace: a key already present keeps its value
emplace(map, key, val) == IF key \in DOMAIN map THEN map ELSE map @@ (key :> val)

\* begin() / operator++ of the map's iterator; 0 is end()
TopoBegin(topoMap) == IF 1 \in DOMAIN topoMap THEN 1 ELSE 0
TopoAfter(topoMap, c) == IF c + 1 \in DOMAIN topoMap THEN c + 1 ELSE 0

\* lines 1582-1584: the call of getCheckpointIdBBMap on a map of n entries
IdInit ==
  /\ PassIdle /\ MtpIdle
  /\ operandList = <<>> /\ operandPos = 1 /\ valuePtrsMap = EmptyMap
  /\ pc = "assign_ids"
  /\ \E n \in 0..MaxTopos :
       /\ checkpointBBTopoMap = TopoMapOfSize(n)
       /\ topoIter = TopoBegin(TopoMapOfSize(n))
  /\ checkpointIDCounter = 1
  /\ ckptIDsCkptToposMap = EmptyMap

\* lines 1585-1601: one iteration of the loop of getCheckpointIdBBMap
AssignNextId ==
  /\ pc = "assign_ids"
  /\ topoIter # 0
  /\ ckptIDsCkptToposMap' =
       emplace(ckptIDsCkptToposMap, checkpointIDCounter, checkpointBBTopoMap[topoIter])
  /\ checkpointIDCounter' = (checkpointIDCounter + 1) % 256
  /\ topoIter' = TopoAfter(checkpointBBTopoMap, topoIter)
  /\ UNCHANGED <<operandList, operandPos, valuePtrsMap, mtpVars, funcIdx, earlierChanged, lastCall, F0, an, rt, F, pc, outcome,
                 isModified, bbCheckpoints, newBBs, restoreControllerBB,
                 restoreControllerSuccessor, saveBBcheckpointBBMap, checkpointBBTopoMap,
                 cur, liveOutMaps, funcJunctionBBPhiValsMap, q, visitedBBs>>

IdNext == AssignNextId
IdSpec == IdInit /\ [][IdNext]_vars

\* operand values and the text getOpName prints for each: 2 and 3 are
\* distinct values that print alike (constants of different types)
OperandValues == {1, 2, 3}
getOpName(v) == IF v = 1 THEN "%a" ELSE "1"

BinderInit ==
  /\ PassIdle /\ MtpIdle
  /\ checkpointBBTopoMap = EmptyMap
  /\ ckptIDsCkptToposMap = EmptyMap
  /\ pc = "scan_operands"
  /\ operandList \in UNION {[1..k -> OperandValues] : k \in 0..MaxOperands}
  /\ operandPos = 1
  /\ valuePtrsMap = EmptyMap
  /\ checkpointIDCounter = 1 /\ topoIter = 0

\* lines 1795-1810: the body of the loops over blocks, instructions and
\* operands, for the next operand
ScanOperand ==
  /\ pc = "scan_operands"
  /\ operandPos <= Len(operandList)
  /\ LET value == operandList[operandPos]
         valName == getOpName(value)
     IN valuePtrsMap' = emplace(valuePtrsMap, valName, value)
  /\ operandPos' = operandPos + 1
  /\ UNCHANGED <<operandList, checkpointIDCounter, topoIter, mtpVars, funcIdx, earlierChanged, lastCall, F0, an, rt, passVars>>

BinderNext == ScanOperand
BinderSpec == BinderInit /\ [][BinderNext]_vars


-----------------------------------------------------------------------------
(* ModuleTransformationPass: candidate selection by tracked-value count,   *)
(* the retry loop around it and the search for the compare of a branch     *)

\* lines 518-536: the largest number of tracked values of an entry of m
getMaxNumOfTrackedValsForBBsInFunc(m) ==
  CHOOSE n \in {Cardinality(m[k].vals) : k \in DOMAIN m} :
    \A k \in DOMAIN m : Cardinality(m[k].vals) <= n

\* std::min_element over the entries of m with the comparator of lines
\* 558-568: the index of the first entry no later entry is less than
RECURSIVE min_element(_, _, _, _)
min_element(m, minValsCount, smallest, i) ==
  LET less(a, b) ==
        IF a.bb = 1 THEN FALSE
        ELSE IF b.bb = 1 THEN TRUE
        ELSE IF Cardinality(a.vals) < minValsCount THEN FALSE
        ELSE IF Cardinality(b.vals) < minValsCount THEN TRUE
        ELSE Cardinality(a.vals) < Cardinality(b.vals)
  IN IF i > Len(m) THEN smallest
     ELSE min_element(m, minValsCount, IF less(m[i], m[smallest]) THEN i ELSE smallest, i + 1)

\* lines 538-600
chooseBBWithLeastTrackedVals(m, minValsCount) ==
  IF getMaxNumOfTrackedValsForBBsInFunc(m) < minValsCount THEN EmptyMap
  ELSE LET minSize == Cardinality(m[min_element(m, minValsCount, 1, 2)].vals)
           sel == {k \in DOMAIN m : Cardinality(m[k].vals) = minSize}
       IN IF minSize >= minValsCount
          THEN [b \in {m[k].bb : k \in sel} |->
                  m[CHOOSE k \in sel : m[k].bb = b].vals]
          ELSE EmptyMap

\* the three entry points start from the analysis data of one function, or
\* from one block and its branch condition
MtpInit ==
  /\ PassIdle
  /\ operandList = <<>> /\ operandPos = 1 /\ valuePtrsMap = EmptyMap
  /\ checkpointIDCounter = 1 /\ topoIter = 0
  /\ checkpointBBTopoMap = EmptyMap /\ ckptIDsCkptToposMap = EmptyMap
  /\ hasInjectedSubroutinesForFunc = FALSE /\ saveBBsList = 0
  /\ cmp_instr = 0 /\ iters = 0
  /\ LET TrackedSet(n) == {9 + j : j \in 1..n}
         Orders == UNION {{s \in [1..k -> 1..NumBBs] : \A i, j \in 1..k : i # j => s[i] # s[j]}
                          : k \in 1..NumBBs}
         Maps == UNION {{[i \in DOMAIN s |-> [bb |-> s[i], vals |-> TrackedSet(c[i])]]
                         : c \in [DOMAIN s -> 0..MaxVals]} : s \in Orders}
         Kinds == {"icmp", "fcmp", "op"}
         Lists == UNION {{[i \in 1..k |-> Inst(19 + i, kd[i], <<>>)] : kd \in [1..k -> Kinds]}
                         : k \in 0..MaxBlockLen}
     IN \/ /\ pc = "choose"
           /\ bbTrackedVals \in Maps
           /\ defaultMinValsCount \in 1..(MaxVals + 1)
           /\ instList = <<>> /\ condi = 0
        \/ /\ pc = "retry_loop"
           /\ bbTrackedVals \in Maps
           /\ defaultMinValsCount = 1
           /\ instList = <<>> /\ condi = 0
        \/ /\ pc = "cmp_search"
           /\ bbTrackedVals = <<>> /\ defaultMinValsCount = 1
           /\ instList \in Lists
           /\ condi \in {ArgVal} \cup {instList[i].id : i \in DOMAIN instList}

\* lines 538-600: one call of chooseBBWithLeastTrackedVals
Choose ==
  /\ pc = "choose"
  /\ bbCheckpoints' = chooseBBWithLeastTrackedVals(bbTrackedVals, defaultMinValsCount)
  /\ pc' = "chosen"
  /\ UNCHANGED <<operandList, operandPos, valuePtrsMap, checkpointIDCounter, topoIter,
                 mtpVars, funcIdx, earlierChanged, F0, an, lastCall, rt, F, outcome,
                 isModified, newBBs, restoreControllerBB, restoreControllerSuccessor,
                 saveBBcheckpointBBMap, checkpointBBTopoMap, cur, liveOutMaps,
                 funcJunctionBBPhiValsMap, q, visitedBBs, ckptIDsCkptToposMap>>

\* lines 170-385: the test of the while loop and one turn of its body.  Each
\* SplitEdge of the body may fail, so any number of the chosen blocks gets a
\* save block
RetryIteration ==
  /\ pc = "retry_loop"
  /\ IF hasInjectedSubroutinesForFunc
        \/ defaultMinValsCount > getMaxNumOfTrackedValsForBBsInFunc(bbTrackedVals)
     THEN /\ pc' = "retry_left"
          /\ UNCHANGED <<bbCheckpoints, defaultMinValsCount, hasInjectedSubroutinesForFunc,
                         saveBBsList>>
     ELSE LET cp == chooseBBWithLeastTrackedVals(bbTrackedVals, defaultMinValsCount)
              first == CHOOSE b \in DOMAIN cp : \A c \in DOMAIN cp : b <= c
          IN /\ bbCheckpoints' = cp
             /\ IF DOMAIN cp = {}
                THEN /\ pc' = "retry_left"
                     /\ UNCHANGED <<defaultMinValsCount, hasInjectedSubroutinesForFunc,
                                    saveBBsList>>
                ELSE \E n \in 0..Cardinality(DOMAIN cp) :
                       /\ saveBBsList' = n
                       /\ defaultMinValsCount' =
                            IF n = 0 THEN Cardinality(cp[first]) + 1 ELSE defaultMinValsCount
                       /\ hasInjectedSubroutinesForFunc' = TRUE
                       /\ pc' = pc
  /\ UNCHANGED <<operandList, operandPos, valuePtrsMap, checkpointIDCounter, topoIter,
                 bbTrackedVals, instList, condi, cmp_instr, iters,
                 funcIdx, earlierChanged, F0, an, lastCall, rt, F, outcome,
                 isModified, newBBs, restoreControllerBB, restoreControllerSuccessor,
                 saveBBcheckpointBBMap, checkpointBBTopoMap, cur, liveOutMaps,
                 funcJunctionBBPhiValsMap, q, visitedBBs, ckptIDsCkptToposMap>>

\* lines 1606-1626 (and 311-325): one turn of the while loop.  Every turn
\* reads the instruction in front of the terminator; the turns are counted
\* modulo MaxIters
CmpSearchStep ==
  /\ pc = "cmp_search"
  /\ LET at == Len(instList)
     IN IF at < 1
        THEN pc' = "cmp_done" /\ UNCHANGED <<cmp_instr, iters>>
        ELSE IF instList[at].kind \in {"icmp", "fcmp"} /\ instList[at].id = condi
        THEN cmp_instr' = instList[at].id /\ pc' = "cmp_done" /\ iters' = iters
        ELSE iters' = (iters + 1) % MaxIters /\ UNCHANGED <<cmp_instr, pc>>
  /\ UNCHANGED <<operandList, operandPos, valuePtrsMap, checkpointIDCounter, topoIter,
                 bbTrackedVals, defaultMinValsCount, hasInjectedSubroutinesForFunc,
                 saveBBsList, instList, condi,
                 funcIdx, earlierChanged, F0, an, lastCall, rt, F, outcome,
                 isModified, bbCheckpoints, newBBs, restoreControllerBB,
                 restoreControllerSuccessor,
                 saveBBcheckpointBBMap, checkpointBBTopoMap, cur, liveOutMaps,
                 funcJunctionBBPhiValsMap, q, visitedBBs, ckptIDsCkptToposMap>>

MtpNext == Choose \/ RetryIteration \/ CmpSearchStep
MtpSpec == MtpInit /\ [][MtpNext]_vars /\ WF_vars(MtpNext)

-----------------------------------------------------------------------------
(* Well-formedness of a function in SSA form *)

RECURSIVE ReachFrom(_, _, _)
ReachFrom(G, S, d) ==
  LET T == S \cup {G.succ[b][i] : <<b, i>> \in {e \in S \X (1..4) : e[2] <= Len(G.succ[e[1]])}}
      U == T \ {d}
  IN IF U = S THEN S ELSE ReachFrom(G, U, d)
\* the blocks some path from the entry reaches without entering d
ReachAvoiding(G, d) == IF d = 1 THEN {} ELSE ReachFrom(G, {1}, d)
Reachable(G) == ReachFrom(G, {1}, 0)
Dominates(G, d, b) == b \notin ReachAvoiding(G, d)

DefIdx(G, b, x) == {k \in DOMAIN G.insts[b] : G.insts[b][k].kind \in DefKinds /\ G.insts[b][k].id = x}
\* x is defined before position k of block b on every path from the entry
DefinedAt(G, x, b, k) ==
  \/ x = ArgVal
  \/ \E j \in DefIdx(G, b, x) : j < k
  \/ \E d \in Blocks(G) \ {b} : DefIdx(G, d, x) # {} /\ Dominates(G, d, b)
\* x is defined at the end of block p on every path from the entry
DefinedAtEnd(G, x, p) == DefinedAt(G, x, p, Len(G.insts[p]) + 1)

UniqueDefs(G) ==
  \A b1, b2 \in Blocks(G) : \A k1 \in DOMAIN G.insts[b1], k2 \in DOMAIN G.insts[b2] :
    (/\ G.insts[b1][k1].kind \in DefKinds
     /\ G.insts[b2][k2].kind \in DefKinds
     /\ G.insts[b1][k1].id = G.insts[b2][k2].id) => (b1 = b2 /\ k1 = k2)

UsesDominated(G) ==
  \A b \in Reachable(G) :
    /\ \A k \in DOMAIN G.insts[b] :
         LET I == G.insts[b][k]
         IN IF I.kind = "phi"
            THEN \A j \in DOMAIN I.ops :
                   I.blks[j] \in Reachable(G) => DefinedAtEnd(G, I.ops[j], I.blks[j])
            ELSE \A j \in DOMAIN I.ops : DefinedAt(G, I.ops[j], b, k)
    /\ G.cond[b] # 0 => DefinedAtEnd(G, G.cond[b], b)

SSAWellFormed(G) == UniqueDefs(G) /\ UsesDominated(G)

\* the incoming blocks of every phi of block b are the predecessors of b,
\* each once
PhiArityOk(G, b) ==
  \A k \in PhiIdx(G, b) :
    LET phi == G.insts[b][k]
    IN /\ Len(phi.blks) = Cardinality(PredEdges(G, b))
       /\ Range(phi.blks) = PredSet(G, b)
       /\ \A p \in PredSet(G, b) : Cardinality({j \in DOMAIN phi.blks : phi.blks[j] = p}) = 1
PhisWellFormed(G) == \A b \in Blocks(G) : PhiArityOk(G, b)

Instrumented == pc = "end" /\ outcome = "injected"

-----------------------------------------------------------------------------
(* The claims *)

\* C1: after a function has been instrumented, every use of every value is
\* dominated by that value's unique definition: a non-phi operand is defined
\* on every path from the entry to the use, a phi incoming on every path from
\* the entry to the end of its incoming block.
C1_UsesDominatedAfterPass == Instrumented => SSAWellFormed(F)

\* C2: after the pass, every phi of an instrumented function (the junction
\* phi, the phis the propagator inserted, the phis the input had) has exactly
\* the predecessors of its block as incoming blocks.
C2_PhiIncomingArePreds == Instrumented => PhisWellFormed(F)

\* an instrumented function with a junction phi, a phi the propagator
\* inserted in a join block, a phi of the input one of whose incoming edges
\* was split, and the switch in the dispatcher block
C2_Witness ==
  /\ Instrumented
  /\ \E b \in Blocks(F) : RoleOf(b) = "junctionBB" /\ PhiIdx(F, b) # {}
  /\ \E b \in Blocks(F0) : \E k \in PhiIdx(F, b) :
       /\ F.insts[b][k].id \notin AllIds(F0)
       /\ Cardinality(PredSet(F, b)) >= 2
  /\ \E b \in Blocks(F0) : \E k \in PhiIdx(F, b) :
       /\ F.insts[b][k].id \in AllIds(F0)
       /\ Range(F.insts[b][k].blks) \ Blocks(F0) # {}
  /\ Len(F.succ[restoreControllerBB]) >= 2

\* C6: the breadth-first propagation terminates: once started, its request
\* queue becomes empty after finitely many processUpdateRequest steps.
C6_PropagationTerminates == (pc = "bfs") ~> (pc # "bfs")

\* C7: whenever the pass ends its work on a function without having
\* installed a checkpoint in it, the function is identical to its input.
C7_SkippedFunctionUnchanged == (pc = "end" /\ outcome # "injected") => F = F0

NoCheckpointCall(G) ==
  \A b \in Blocks(G) : \A k \in DOMAIN G.insts[b] :
    G.insts[b][k].kind = "call" => G.insts[b][k].callee # "checkpoint"

\* C8: a function in which no block contains a call whose callee name
\* contains "checkpoint" is left unchanged by the pass.
C8_NoDirectiveUnchanged == NoCheckpointCall(F0) => F = F0

\* the pass has run past its skip tests on a function whose blocks hold
\* tracked values and calls, none of them a checkpoint directive
C8_Witness ==
  /\ NoCheckpointCall(F0)
  /\ CallSites(F0) # {}
  /\ pc = "end"
  /\ outcome = "no_candidates"
  /\ removeBBsWithNoTrackedVals(getBBsWithOneSuccessor(F0, an.tracked)) # EmptyMap

RolesOf(c) == {RoleOf(b) : b \in {x \in Blocks(F) : F.name[x][2] = c}}
Wired(c) ==
  /\ c \in DOMAIN checkpointBBTopoMap
  /\ LET t == checkpointBBTopoMap[c]
     IN /\ F.succ[c] = <<t.saveBB>>
        /\ F.succ[t.saveBB] = <<t.junctionBB>>
        /\ F.succ[t.junctionBB] = <<t.resumeBB>>
        /\ F.succ[t.restoreBB] = <<t.junctionBB>>

\* C9: after the pass, for every candidate checkpoint block either its save,
\* junction and restore block all exist and are wired, or none of the three
\* exists in the function.
C9_TopologyAtomic ==
  pc = "end" =>
    \A c \in DOMAIN bbCheckpoints :
      \/ Wired(c) /\ {"saveBB", "junctionBB", "restoreBB"} \subseteq RolesOf(c)
      \/ RolesOf(c) \cap {"saveBB", "junctionBB", "restoreBB"} = {}

HasSwitchCase(c) ==
  \E id \in DOMAIN ckptIDsCkptToposMap :
    /\ ckptIDsCkptToposMap[id].checkpointBB = c
    /\ \E k \in DOMAIN F.cases[restoreControllerBB] :
         /\ F.cases[restoreControllerBB][k] = id
         /\ F.succ[restoreControllerBB][k + 1] = ckptIDsCkptToposMap[id].restoreBB

\* C10: when a function has several candidate checkpoint blocks and an edge
\* split fails for one of them, every other candidate still receives a
\* complete topology, an id and a dispatcher switch case.
C10_FailureIsolated ==
  (/\ pc = "end"
   /\ outcome \in {"injected", "no_checkpoints"}
   /\ Cardinality(DOMAIN bbCheckpoints) >= 2
   /\ cur.checkpointBB \notin DOMAIN checkpointBBTopoMap)
  => \A c \in DOMAIN bbCheckpoints \ {cur.checkpointBB} : Wired(c) /\ HasSwitchCase(c)

\* C6 is a property of the pass alone and is checked under PassSpec, whose
\* fairness says that the loop over the request queue keeps taking steps.

\* C3: once a save block has stored the tracked values in one invocation and
\* a later invocation is entered with the same checkpoint memory, every use
\* of a tracked value executed after the junction block and before the next
\* redefinition of the value observes the stored word.
C3_RoundTrip == ~rt.badUse

DispatchPath(id) ==
  LET t == ckptIDsCkptToposMap[id]
  IN <<1, restoreControllerBB, t.restoreBB, t.junctionBB, t.resumeBB>>

\* C4: an execution entered with the CKPT_ID slot equal to the id of an
\* installed checkpoint goes from the entry block to the dispatcher block,
\* then to that checkpoint's restore, junction and resume block, before any
\* other block executes.
C4_ReentryDispatch ==
  (rt.active /\ rt.entryId \in DOMAIN ckptIDsCkptToposMap) =>
    \A k \in DOMAIN rt.trace :
      k <= Len(DispatchPath(rt.entryId)) => rt.trace[k] = DispatchPath(rt.entryId)[k]

OrigTrace(t) == SelectSeq(t, IsOrigBlock)

\* C5: an execution entered with CKPT_ID = 0 takes the default edge of the
\* dispatcher, executes no restore block, executes the original blocks in
\* an order the input function allows, and computes in them the values the
\* input function computes.
C5_TransparentWithoutCheckpoint ==
  (rt.active /\ rt.entryId = 0) =>
    /\ ~rt.diverged
    /\ \A k \in DOMAIN rt.trace : RoleOf(rt.trace[k]) # "restoreBB"
    /\ \A k \in 1..(Len(rt.trace) - 1) :
         rt.trace[k] = restoreControllerBB => rt.trace[k + 1] = restoreControllerSuccessor
    /\ \A k \in 1..(Len(OrigTrace(rt.trace)) - 1) :
         OrigTrace(rt.trace)[k + 1] \in Range(F0.succ[OrigTrace(rt.trace)[k]])

SwitchInstalled == pc = "end" /\ outcome \in {"injected", "no_checkpoints"}

\* C11: the switch installed in restoreControllerBB has exactly one case per
\* installed CheckpointTopo, the case for id i goes to the restore block of
\* the topology with id i, and the default destination is the block that was
\* the first successor of the entry block before the pass.
C11_SwitchCases ==
  SwitchInstalled =>
    LET rc == restoreControllerBB
    IN /\ Len(F.cases[rc]) = Cardinality(DOMAIN checkpointBBTopoMap)
       /\ Len(F.succ[rc]) = Len(F.cases[rc]) + 1
       /\ \A j, k \in DOMAIN F.cases[rc] : j # k => F.cases[rc][j] # F.cases[rc][k]
       /\ \A k \in DOMAIN F.cases[rc] :
            LET i == F.cases[rc][k]
            IN /\ i \in DOMAIN ckptIDsCkptToposMap
               /\ F.succ[rc][k + 1] = ckptIDsCkptToposMap[i].restoreBB
               /\ F.name[F.succ[rc][k + 1]][1] = "restoreBB"
               /\ F.name[F.succ[rc][k + 1]][3] = i
       /\ F.succ[rc][1] = F0.succ[1][1]

\* a switch with a case was installed in a function whose entry block has
\* two successors
C11_Witness ==
  /\ Instrumented
  /\ Len(F.cases[restoreControllerBB]) >= 1
  /\ Len(F0.succ[1]) >= 2

\* C12: after the pass every block the pass created (dispatcher, save,
\* restore, junction) is reachable from the entry block, and the only
\* predecessor of every restore block is the dispatcher block, through a
\* case of its switch.
C12_NewBlocksReachable ==
  pc = "end" =>
    /\ \A b \in Blocks(F) \ Blocks(F0) : b \in Reachable(F)
    /\ \A b \in Blocks(F) :
         RoleOf(b) = "restoreBB" =>
           /\ PredSet(F, b) = {restoreControllerBB}
           /\ \A e \in PredEdges(F, b) : e[2] >= 2

\* the pass has ended on a function that has a dispatcher, a save, a
\* junction and a restore block
C12_Witness ==
  /\ pc = "end"
  /\ {"restoreControllerBB", "saveBB", "junctionBB", "restoreBB"}
       \subseteq {RoleOf(b) : b \in Blocks(F) \ Blocks(F0)}

InstsOf(G, b) == Range(G.insts[b])
\* the slots the save block stores value x to (x itself, or the word loaded
\* through the pointer x)
SaveSlotsOf(G, sb, x) ==
  {I.slot : I \in {J \in InstsOf(G, sb) :
     /\ J.kind = "ckstore"
     /\ J.ops # <<>>
     /\ \/ J.ops[1] = x
        \/ \E L \in InstsOf(G, sb) : L.kind = "load" /\ L.id = J.ops[1] /\ L.ops = <<x>>}}
\* the slots the restore block loads value r from (r itself, or the word
\* stored to the stack cell r)
RestoreSlotsOf(G, rb, r) ==
  {I.slot : I \in {J \in InstsOf(G, rb) :
     /\ J.kind = "ckload"
     /\ \/ J.id = r
        \/ \E S \in InstsOf(G, rb) : S.kind = "store" /\ S.ops = <<J.id, r>>}}
\* the slot of the value merged by junction phi k of topology t, if unique
SlotOfPhi(G, t, k) ==
  LET phi == G.insts[t.junctionBB][k]
      x == phi.ops[IncomingIdx(phi, t.saveBB)]
      r == phi.ops[IncomingIdx(phi, t.restoreBB)]
      ss == SaveSlotsOf(G, t.saveBB, x)
      rs == RestoreSlotsOf(G, t.restoreBB, r)
  IN IF ss = rs /\ Cardinality(ss) = 1 THEN CHOOSE s \in ss : TRUE ELSE Undef

\* C13: for every installed checkpoint with n tracked values, each tracked
\* value is stored in the save block to the slot it is loaded from in the
\* restore block, distinct values have distinct slots, the slots used are
\* exactly VALUES_START .. VALUES_START + n - 1, and none of them is the
\* HEARTBEAT, CKPT_ID or IS_COMPLETE slot.
C13_SlotBijective ==
  Instrumented =>
    \A c \in DOMAIN checkpointBBTopoMap :
      LET t == checkpointBBTopoMap[c]
          n == Cardinality(bbCheckpoints[c])
          ks == PhiIdx(F, t.junctionBB)
      IN /\ Cardinality(ks) = n
         /\ \A k \in ks : HasIncoming(F.insts[t.junctionBB][k], t.saveBB)
                          /\ HasIncoming(F.insts[t.junctionBB][k], t.restoreBB)
         /\ \A j, k \in ks : j # k => SlotOfPhi(F, t, j) # SlotOfPhi(F, t, k)
         /\ {SlotOfPhi(F, t, k) : k \in ks} = VALUES_START..(VALUES_START + n - 1)
         /\ {SlotOfPhi(F, t, k) : k \in ks} \cap {HEARTBEAT, CKPT_ID, IS_COMPLETE} = {}
         /\ \A i \in DOMAIN cur.trackedVals :
              \E k \in ks : /\ funcJunctionBBPhiValsMap[t.junctionBB][cur.trackedVals[i]]
                                 = F.insts[t.junctionBB][k].id
                            /\ SlotOfPhi(F, t, k) = VALUES_START + i - 1

\* an installed checkpoint with two tracked values
C13_Witness ==
  /\ Instrumented
  /\ \E c \in DOMAIN checkpointBBTopoMap : Cardinality(bbCheckpoints[c]) >= 2

\* an installed checkpoint whose tracked value is a pointer
C13_WitnessPointer ==
  /\ Instrumented
  /\ \E c \in DOMAIN checkpointBBTopoMap : bbCheckpoints[c] \cap an.ptr # {}

\* C14: the pass never aborts the module: whatever the reason a function is
\* skipped for (no tracked-values entry, no live-values entry, no ckpt_mem
\* argument, a single block, no candidates, a failed edge split), the loop
\* over the functions goes on to the functions after it.
C14_ModuleNeverAborts == pc # "crashed"

AfterSaveBB == rt.active /\ RoleOf(rt.cur) = "saveBB" /\ rt.ip > Len(F.insts[rt.cur])
IdOfSaveBB(sb) == CHOOSE i \in DOMAIN ckptIDsCkptToposMap : ckptIDsCkptToposMap[i].saveBB = sb

\* C15: right after any execution of the save block of the checkpoint with
\* id i the checkpoint memory holds CKPT_ID = i and IS_COMPLETE = 1, the slot
\* of every tracked value holds the current word of that value (the word it
\* points to, for a pointer), and a re-entry with that memory is dispatched
\* to the restore block paired with the save block.
C15_SavePostcondition ==
  AfterSaveBB =>
    LET i == IdOfSaveBB(rt.cur)
        t == ckptIDsCkptToposMap[i]
        rc == restoreControllerBB
    IN /\ rt.m.mem[CKPT_ID] = i
       /\ rt.m.mem[IS_COMPLETE] = 1
       /\ \A k \in DOMAIN cur.trackedVals :
            rt.m.mem[VALUES_START + k - 1]
              = ObservedWord(cur.trackedVals[k], Val(rt.m.env, cur.trackedVals[k]), rt.m.heap)
       /\ F.succ[rc][SwitchTarget(F, rc, rt.m.mem[CKPT_ID])] = t.restoreBB

\* block b stores the constant i to the CKPT_ID slot
StoresCkptId(G, b, i) ==
  \E k \in DOMAIN G.insts[b] :
    LET I == G.insts[b][k]
    IN I.kind = "ckstore" /\ I.slot = CKPT_ID /\ I.ops = <<>> /\ I.imm = i
\* block b loads the HEARTBEAT slot, adds 1 and stores the sum to the slot
IncrementsHeartbeat(G, b) ==
  \E k1, k2, k3 \in DOMAIN G.insts[b] :
    LET L == G.insts[b][k1]
        A == G.insts[b][k2]
        S == G.insts[b][k3]
    IN /\ k1 < k2 /\ k2 < k3
       /\ L.kind = "ckload" /\ L.slot = HEARTBEAT
       /\ A.kind = "add1" /\ A.ops = <<L.id>>
       /\ S.kind = "ckstore" /\ S.slot = HEARTBEAT /\ S.ops = <<A.id>>
\* block b writes the CKPT_ID slot or touches the HEARTBEAT slot
TouchesIdOrHeartbeat(G, b) ==
  \E k \in DOMAIN G.insts[b] :
    LET I == G.insts[b][k]
    IN \/ I.kind = "ckstore" /\ I.slot \in {CKPT_ID, HEARTBEAT}
       \/ I.kind = "ckload" /\ I.slot = HEARTBEAT
IdsPending == pc \in {"populate", "propagate", "bfs", "add_ids"}

\* C16 as stated: for every installed checkpoint with id i, the save block
\* and the restore block both hold a store of i to the CKPT_ID slot and a
\* load / add 1 / store increment of the HEARTBEAT slot.
C16_IdAndHeartbeatInBoth ==
  Instrumented =>
    \A i \in DOMAIN ckptIDsCkptToposMap :
      LET t == ckptIDsCkptToposMap[i]
      IN /\ StoresCkptId(F, t.saveBB, i) /\ IncrementsHeartbeat(F, t.saveBB)
         /\ StoresCkptId(F, t.restoreBB, i) /\ IncrementsHeartbeat(F, t.restoreBB)

\* C16 amended: for every installed checkpoint with id i, the save block
\* holds a store of i to the CKPT_ID slot and the heartbeat increment; the
\* restore block holds the heartbeat increment and no store to the CKPT_ID
\* slot; none of these instructions exists before the ids are assigned.
C16_IdInSaveHeartbeatInBoth ==
  /\ Instrumented =>
       \A i \in DOMAIN ckptIDsCkptToposMap :
         LET t == ckptIDsCkptToposMap[i]
         IN /\ StoresCkptId(F, t.saveBB, i) /\ IncrementsHeartbeat(F, t.saveBB)
            /\ IncrementsHeartbeat(F, t.restoreBB)
            /\ \A j \in 0..255 : ~StoresCkptId(F, t.restoreBB, j)
  /\ IdsPending => \A b \in Blocks(F) : ~TouchesIdOrHeartbeat(F, b)

\* a checkpoint was installed and received its id
C16_Witness ==
  /\ Instrumented
  /\ \E i \in DOMAIN ckptIDsCkptToposMap :
       F.name[ckptIDsCkptToposMap[i].saveBB] = <<"saveBB", ckptIDsCkptToposMap[i].checkpointBB, i>>

\* C17: the HEARTBEAT slot is strictly greater after each executed save or
\* restore block than before it and never decreases, whatever value it held
\* when the function was first entered.
C17_HeartbeatIncreases ==
  rt.active =>
    /\ rt.m.mem[HEARTBEAT] >= rt.hbEntry
    /\ (RoleOf(rt.cur) \in {"saveBB", "restoreBB"} /\ rt.ip > Len(F.insts[rt.cur]))
         => rt.m.mem[HEARTBEAT] > rt.hbEntry

\* the id the map gives the topology of checkpoint block c (0 - 1 if none)
IdOfTopo(c) ==
  IF \E i \in DOMAIN ckptIDsCkptToposMap : ckptIDsCkptToposMap[i] = checkpointBBTopoMap[c]
  THEN CHOOSE i \in DOMAIN ckptIDsCkptToposMap :
         ckptIDsCkptToposMap[i] = checkpointBBTopoMap[c]
  ELSE Undef

\* C18: getCheckpointIdBBMap gives the n entries of checkpointBBTopoMap, for
\* every n, ids that are >= 1 (never 0), pairwise distinct and strictly
\* increasing in the iteration order of the map, and the map it returns has
\* exactly n entries.
C18_IdsPositiveDistinctIncreasing ==
  (pc = "assign_ids" /\ topoIter = 0) =>
    LET n == Cardinality(DOMAIN checkpointBBTopoMap)
    IN /\ Cardinality(DOMAIN ckptIDsCkptToposMap) = n
       /\ \A i \in DOMAIN ckptIDsCkptToposMap : i >= 1
       /\ \A c \in DOMAIN checkpointBBTopoMap : IdOfTopo(c) >= 1
       /\ \A c \in DOMAIN checkpointBBTopoMap :
            c + 1 \in DOMAIN checkpointBBTopoMap => IdOfTopo(c) < IdOfTopo(c + 1)

\* C18 below the range of the 8 bit counter
C18_UpTo255 == Cardinality(DOMAIN checkpointBBTopoMap) <= 255 => C18_IdsPositiveDistinctIncreasing

\* the states in which the checkpoint blocks of the function have just been
\* computed and nothing else of the function has changed yet
SelectionDone ==
  \/ pc = "split_controller"
  \/ pc = "end" /\ outcome = "no_candidates"
FilteredTracked(b) == an.tracked[b] \ an.nestedPtr
CallsCheckpoint(b) ==
  \E i \in DOMAIN F0.insts[b] :
    F0.insts[b][i].kind = "call" /\ NameContainsCheckpoint(F0.insts[b][i].callee)
Eligible ==
  {b \in Blocks(F0) : /\ Len(F0.succ[b]) = 1
                      /\ b \in DOMAIN an.tracked /\ FilteredTracked(b) # {}
                      /\ CallsCheckpoint(b)}
NumDirectives(G, b) ==
  Cardinality({i \in DOMAIN G.insts[b] :
                 G.insts[b][i].kind = "call" /\ NameContainsCheckpoint(G.insts[b][i].callee)})

\* C19: once the checkpoint blocks of a function are computed they are exactly
\* the blocks with one successor, a non-empty tracked set after the nested
\* pointers are removed, and a call whose callee name contains "checkpoint";
\* each is recorded with its filtered tracked set; one directive call is erased
\* in each selected block and no instruction of any other block is touched.
C19_CandidateSelection ==
  SelectionDone =>
    /\ DOMAIN bbCheckpoints = Eligible
    /\ \A b \in DOMAIN bbCheckpoints : bbCheckpoints[b] = FilteredTracked(b)
    /\ \A b \in Blocks(F0) :
         IF b \in DOMAIN bbCheckpoints
         THEN /\ Len(F.insts[b]) = Len(F0.insts[b]) - 1
              /\ NumDirectives(F, b) = NumDirectives(F0, b) - 1
              /\ F.insts[b] = RemoveAt(F0.insts[b], FirstDirective(F0, b))
         ELSE F.insts[b] = F0.insts[b]

\* a function in which one block is selected and another block holds a call
\* that is left in place
C19_Witness ==
  /\ pc = "split_controller"
  /\ DOMAIN bbCheckpoints # {}
  /\ \E b \in Blocks(F0) \ DOMAIN bbCheckpoints :
       \E i \in DOMAIN F0.insts[b] : F0.insts[b][i].kind = "call"

\* a block that calls a directive and is left out because its tracked set is
\* empty once the nested pointers are removed
C19_WitnessFilteredOut ==
  /\ SelectionDone
  /\ \E b \in Blocks(F0) \ DOMAIN bbCheckpoints :
       CallsCheckpoint(b) /\ Len(F0.succ[b]) = 1 /\ an.tracked[b] # {}

ScanDone == pc = "scan_operands" /\ operandPos > Len(operandList)
PositionsOf(nm) == {k \in DOMAIN operandList : getOpName(operandList[k]) = nm}
FirstOf(nm) == operandList[CHOOSE k \in PositionsOf(nm) : \A j \in PositionsOf(nm) : k <= j]
LastOf(nm) == operandList[CHOOSE k \in PositionsOf(nm) : \A j \in PositionsOf(nm) : k >= j]
ScannedNames == {getOpName(operandList[k]) : k \in DOMAIN operandList}

\* C20 as stated: the map holds the name of every operand scanned, and a
\* name that several distinct operand values print as is bound to the value
\* scanned last.
C20_LastScannedWins ==
  ScanDone =>
    /\ DOMAIN valuePtrsMap = ScannedNames
    /\ \A nm \in ScannedNames : valuePtrsMap[nm] = LastOf(nm)

\* C20 amended: the map holds the name of every operand scanned, and a name
\* that several distinct operand values print as is bound to the value
\* scanned first.
C20_FirstScannedWins ==
  ScanDone =>
    /\ DOMAIN valuePtrsMap = ScannedNames
    /\ \A nm \in ScannedNames : valuePtrsMap[nm] = FirstOf(nm)

\* the scan has ended on operands among which two distinct values print the
\* same name
C20_Witness ==
  /\ ScanDone
  /\ \E j, k \in DOMAIN operandList :
       /\ j < k
       /\ operandList[j] # operandList[k]
       /\ getOpName(operandList[j]) = getOpName(operandList[k])

\* the loop over the functions of the module is over: injectSubroutines, and
\* with it runOnModule, returns isModified
PassReturns == pc = "end" /\ funcIdx = NumFuncs

C21_TrueOnlyIfModified ==
  PassReturns => (isModified => (earlierChanged \/ F # F0))

\* processUpdateRequest has returned and nothing has touched the function, the
\* visited map or the queue since: F and visitedBBs are what the call left
Returned == lastCall.called /\ pc \in {"bfs", "propagate"}

\* the drop conditions of a request, on what the call found at its entry
StartRevisited(c) ==
  c.req.currBB = c.req.startBB /\ c.req.currBB \in DOMAIN c.visitedBBs
AtExitBlock(c) == Len(c.F.succ[c.req.currBB]) = 0
VersionsAlreadySeen(c) ==
  /\ c.req.currBB \in DOMAIN c.visitedBBs
  /\ c.visitedBBs[c.req.currBB] = c.req.valueVersions
DropCondition(c) == StartRevisited(c) \/ AtExitBlock(c) \/ VersionsAlreadySeen(c)

AccumulatedBefore(c) ==
  IF c.req.currBB \in DOMAIN c.visitedBBs THEN c.visitedBBs[c.req.currBB] ELSE {}

C22_WitnessStart == Returned /\ StartRevisited(lastCall)
C22_WitnessSeen ==
  Returned /\ VersionsAlreadySeen(lastCall) /\ ~AtExitBlock(lastCall) /\ ~StartRevisited(lastCall)

\* the set remembered for the block of the last call, after the call
AccumulatedAfter == visitedBBs[lastCall.req.currBB]
\* the values the call itself can add to its copy of valueVersions: the
\* request's newVal and oldVal, and a phi created by the call
CreatedBy(c) ==
  {c.req.newVal, c.req.oldVal} \cup (AllIds(F) \ AllIds(c.F))

InstsBefore == lastCall.F.insts[lastCall.req.currBB]
InstsAfter == F.insts[lastCall.req.currBB]
\* an instruction of the block is itself one of the request's versions
RedefinesVersion(c) ==
  \E k \in DOMAIN c.F.insts[c.req.currBB] :
    c.F.insts[c.req.currBB][k].id \in c.req.valueVersions
\* the successors of the block other than the block itself, in order
SuccessorsToVisit(c) ==
  SelectSeq(c.F.succ[c.req.currBB], LAMBDA x : x # c.req.currBB)

\* C24: at a join with no matching phi the call puts a new phi p first in the
\* block, with one incoming per predecessor edge, newVal from prevBlock and
\* oldVal from the others; the phis the block already had keep their
\* incomings and the other instructions have oldVal replaced by p; p is in the
\* versions remembered; and, unless the request is one that stops, every
\* successor is enqueued with newVal = p and p among its versions.
C24_NewPhiAtJoin ==
  (Returned /\ lastCall.branch = "new_phi") =>
    LET req == lastCall.req
        p == InstsAfter[1]
    IN /\ Len(InstsAfter) = Len(InstsBefore) + 1
       /\ p.kind = "phi"
       /\ p.id \notin AllIds(lastCall.F)
       /\ p.blks = getBBPredecessors(lastCall.F, req.currBB)
       /\ \A i \in DOMAIN p.ops :
            p.ops[i] = IF p.blks[i] = req.prevBB THEN req.newVal ELSE req.oldVal
       /\ \A k \in DOMAIN InstsBefore :
            InstsAfter[k + 1] =
              IF InstsBefore[k].kind = "phi" THEN InstsBefore[k]
              ELSE replaceOperandsInInst(InstsBefore[k], req.oldVal, p.id)
       /\ p.id \in AccumulatedAfter
       /\ (~lastCall.isStop /\ ~RedefinesVersion(lastCall)) =>
            /\ Len(lastCall.push) = Len(SuccessorsToVisit(lastCall))
            /\ \A i \in DOMAIN lastCall.push :
                 /\ lastCall.push[i].currBB = SuccessorsToVisit(lastCall)[i]
                 /\ lastCall.push[i].prevBB = req.currBB
                 /\ lastCall.push[i].newVal = p.id
                 /\ lastCall.push[i].oldVal = req.oldVal
                 /\ p.id \in lastCall.push[i].valueVersions

\* C24 with the phis included among the instructions whose operands are replaced
C24_ExceptExistingPhis ==
  (Returned /\ lastCall.branch = "new_phi") =>
    LET req == lastCall.req
        p == InstsAfter[1]
    IN /\ Len(InstsAfter) = Len(InstsBefore) + 1
       /\ p.kind = "phi"
       /\ p.id \notin AllIds(lastCall.F)
       /\ p.blks = getBBPredecessors(lastCall.F, req.currBB)
       /\ \A i \in DOMAIN p.ops :
            p.ops[i] = IF p.blks[i] = req.prevBB THEN req.newVal ELSE req.oldVal
       /\ \A k \in DOMAIN InstsBefore :
            InstsAfter[k + 1] = replaceOperandsInInst(InstsBefore[k], req.oldVal, p.id)
       /\ p.id \in AccumulatedAfter
       /\ (~lastCall.isStop /\ ~RedefinesVersion(lastCall)) =>
            /\ Len(lastCall.push) = Len(SuccessorsToVisit(lastCall))
            /\ \A i \in DOMAIN lastCall.push :
                 /\ lastCall.push[i].currBB = SuccessorsToVisit(lastCall)[i]
                 /\ lastCall.push[i].newVal = p.id

\* C25: at a join where a phi has an incoming from prevBlock whose value is one
\* of the request's versions, the call sets exactly those incomings to newVal;
\* every other incoming, every instruction that is not a phi, every other
\* block and the queue behind the request are left as they were.
C25_EditsMatchingIncomingsOnly ==
  (Returned /\ lastCall.branch = "modify_phi") =>
    LET req == lastCall.req
    IN /\ Len(InstsAfter) = Len(InstsBefore)
       /\ \A k \in DOMAIN InstsBefore :
            IF InstsBefore[k].kind = "phi"
            THEN InstsAfter[k] =
                   [InstsBefore[k] EXCEPT !.ops =
                      [i \in DOMAIN InstsBefore[k].ops |->
                         IF /\ InstsBefore[k].blks[i] = req.prevBB
                            /\ InstsBefore[k].ops[i] \in req.valueVersions
                         THEN req.newVal
                         ELSE InstsBefore[k].ops[i]]]
            ELSE InstsAfter[k] = InstsBefore[k]
       /\ \A b \in Blocks(lastCall.F) \ {req.currBB} : F.insts[b] = lastCall.F.insts[b]
       /\ F.succ = lastCall.F.succ
       /\ lastCall.push = <<>>

\* the call has changed an incoming of a phi that has an incoming from
\* another block as well
C25_Witness ==
  /\ Returned
  /\ lastCall.branch = "modify_phi"
  /\ InstsAfter # InstsBefore
  /\ \E k \in DOMAIN InstsBefore :
       /\ InstsBefore[k].kind = "phi"
       /\ InstsAfter[k] # InstsBefore[k]
       /\ \E i \in DOMAIN InstsBefore[k].ops : InstsBefore[k].blks[i] # lastCall.req.prevBB

\* the live-out set of a predecessor by what the block is: the tracked values
\* of the checkpoint for its save, restore and junction block, the set of the
\* liveness analysis for a block of the input function, none for the
\* dispatcher
LiveOutByRole(b) ==
  IF IsOrigBlock(b) THEN an.liveOut[b]
  ELSE IF RoleOf(b) \in {"saveBB", "restoreBB", "junctionBB"}
       THEN bbCheckpoints[cur.checkpointBB]
       ELSE {}
LiveOutPredEdges(c) ==
  {e \in PredEdges(c.F, c.req.currBB) : c.req.oldVal \in LiveOutByRole(e[1])}
InsertsOrEditsPhi(c) == c.branch \in {"new_phi", "modify_phi"}
PhisOf(G, b) == {G.insts[b][k].id : k \in PhiIdx(G, b)}

\* C26: a call treats its block as a join exactly when the block is not one
\* the pass created, has two or more predecessors, and oldVal is live-out of
\* two or more of them; and no call leaves a phi in a dispatcher, save,
\* restore or junction block that was not there before the call.
C26_JoinDecision ==
  Returned =>
    /\ InsertsOrEditsPhi(lastCall) <=>
         /\ IsOrigBlock(lastCall.req.currBB)
         /\ Cardinality(PredEdges(lastCall.F, lastCall.req.currBB)) >= 2
         /\ Cardinality(LiveOutPredEdges(lastCall)) >= 2
    /\ \A b \in Blocks(lastCall.F) :
         ~IsOrigBlock(b) => PhisOf(F, b) = PhisOf(lastCall.F, b)

\* a request has been processed on a junction block, which has two
\* predecessors with the tracked value live-out, and on an original block
\* whose second predecessor is the dispatcher
C26_Witness ==
  /\ Returned
  /\ RoleOf(lastCall.req.currBB) = "junctionBB"
  /\ Cardinality(LiveOutPredEdges(lastCall)) >= 2
C26_WitnessDispatcherPred ==
  /\ Returned
  /\ IsOrigBlock(lastCall.req.currBB)
  /\ \E e \in PredEdges(lastCall.F, lastCall.req.currBB) : e[1] = restoreControllerBB
  /\ ~InsertsOrEditsPhi(lastCall)

\* C27: a request processed on a block that holds an instruction which is
\* itself one of the request's versions enqueues no successor.
C27_StopsAtRedefinition ==
  (Returned /\ RedefinesVersion(lastCall)) => lastCall.push = <<>>

\* the redefinition is the only thing that stops the request: no drop
\* condition holds, the block has a successor other than itself, and the call
\* did not take the branch that never enqueues
C27_Witness ==
  /\ Returned
  /\ RedefinesVersion(lastCall)
  /\ ~lastCall.isStop
  /\ lastCall.branch # "modify_phi"
  /\ SuccessorsToVisit(lastCall) # <<>>

\* the BFS of a tracked value has emptied its queue
BFSDone == pc = "propagate" /\ lastCall.called
PropagatedVal == lastCall.req.oldVal
MergedVal == funcJunctionBBPhiValsMap[cur.junctionBB][PropagatedVal]

\* h heads a diamond with arms a, b that reconverges in J: h has the junction
\* as only predecessor, each arm has h as only predecessor and J as only
\* successor, J has the two arms as only predecessors
IsDiamond(G, h, a, b, J) ==
  /\ G.succ[h] = <<a, b>> /\ a # b
  /\ G.succ[a] = <<J>> /\ G.succ[b] = <<J>>
  /\ J \notin {h, a, b}
  /\ PredSet(G, h) = {cur.junctionBB}
  /\ PredEdges(G, a) = {<<h, 1>>} /\ PredEdges(G, b) = {<<h, 2>>}
  /\ PredEdges(G, J) = {<<a, 1>>, <<b, 1>>}
DiamondsAtResume ==
  {d \in Blocks(F0) \X Blocks(F0) \X Blocks(F0) :
     /\ IsDiamond(F, cur.resumeBB, d[1], d[2], d[3])
     /\ PropagatedVal \in an.liveOut[d[1]] \cap an.liveOut[d[2]]}
\* the phis of block J that the BFS of the tracked value has created
NewPhiIdx(J) ==
  {k \in PhiIdx(F, J) : /\ F.insts[J][k].id \notin AllIds(F0)
                        /\ J \in DOMAIN visitedBBs
                        /\ F.insts[J][k].id \in visitedBBs[J]}
\* every operand of block s that was v in the input function is now x
UsesReferTo(s, v, x) ==
  \A k \in DOMAIN F.insts[s] : \A j \in DOMAIN F0.insts[s] :
    F.insts[s][k].id = F0.insts[s][j].id =>
      F.insts[s][k].ops = ReplaceAll(F0.insts[s][j].ops, v, x)
\* what C28 says of the diamond d
DiamondRepaired(d) ==
  LET J == d[3] IN
  /\ Cardinality(NewPhiIdx(J)) = 1
  /\ \A k \in NewPhiIdx(J) :
       LET p == F.insts[J][k] IN
       /\ p.blks = <<d[1], d[2]>>
       /\ p.ops = <<MergedVal, MergedVal>>
       /\ UsesReferTo(J, PropagatedVal, p.id)
       /\ \A s \in Range(F.succ[J]) :
            (PredSet(F, s) = {J} /\ ~definesVersion(F0.insts[s], {PropagatedVal})) =>
              UsesReferTo(s, PropagatedVal, p.id)

\* C28: when the resume block heads a diamond whose reconvergence block J has
\* the two arms as predecessors, both with the tracked value v live-out, then
\* once the BFS of v is over J holds exactly one new phi for v, its incomings
\* are the version of v that leaves either arm (the junction's phi), and every
\* use of v in J and in the block after J refers to that phi.
C28_DiamondRepaired ==
  BFSDone => \A d \in DiamondsAtResume : DiamondRepaired(d)

\* C28 for the diamonds whose reconvergence block had no phi that takes v
\* from the arm the BFS visits first
C28_NoPhiOnFirstArm ==
  BFSDone =>
    \A d \in DiamondsAtResume :
      (\A j \in PhiIdx(F0, d[3]) :
          \A i \in DOMAIN F0.insts[d[3]][j].ops :
            ~(F0.insts[d[3]][j].blks[i] = d[1] /\ F0.insts[d[3]][j].ops[i] = PropagatedVal))
      => DiamondRepaired(d)

\* the BFS is over on a diamond whose reconvergence block has a successor
C28_Witness ==
  /\ BFSDone
  /\ \E d \in DiamondsAtResume : F.succ[d[3]] # <<>> /\ DiamondRepaired(d)

\* some path leads from a successor of block h back to h
IsLoopHeader(G, h) == h \in ReachFrom(G, Range(G.succ[h]), 0)

\* the edges into h from a block that a path from h reaches
BackEdges(G, h) ==
  {e \in PredEdges(G, h) : e[1] \in ReachFrom(G, Range(G.succ[h]), 0)}

\* the incomings of the phis of the resume block that took the tracked value
\* v over the edge from the checkpoint block, which the junction block now ends
JunctionSideIncomings(v) ==
  {<<j, i>> \in (DOMAIN F0.insts[cur.resumeBB]) \X (1..4) :
     /\ F0.insts[cur.resumeBB][j].kind = "phi"
     /\ i \in DOMAIN F0.insts[cur.resumeBB][j].ops
     /\ F0.insts[cur.resumeBB][j].blks[i] = cur.checkpointBB
     /\ F0.insts[cur.resumeBB][j].ops[i] = v}
\* the phi of the resume block that has the id of its j-th input instruction
SamePhiIdx(j) ==
  {k \in PhiIdx(F, cur.resumeBB) :
     F.insts[cur.resumeBB][k].id = F0.insts[cur.resumeBB][j].id}

C29_WitnessTwoBackEdges ==
  /\ IsOrigBlock(cur.resumeBB) /\ IsLoopHeader(F, cur.resumeBB)
  /\ Returned
  /\ lastCall.startVisits = 3

\* block c is the only block with the directive, the directive ends it, its
\* one successor h is the header of a loop that c closes, and x is the one
\* value tracked at c
LatchCheckpoint(c, h, x) ==
  /\ {b \in Blocks(F0) : CallsCheckpoint(b)} = {c}
  /\ NumDirectives(F0, c) = 1
  /\ F0.insts[c][Len(F0.insts[c])].kind = "call"
  /\ F0.succ[c] = <<h>>
  /\ c # h
  /\ c \in ReachFrom(F0, Range(F0.succ[h]), 0)
  /\ c \in DOMAIN bbCheckpoints
  /\ bbCheckpoints[c] = {x}
\* the header has a phi that takes x over the edge from the latch
HeaderPhiTakes(c, h, x) ==
  \E j \in PhiIdx(F0, h) : \E i \in DOMAIN F0.insts[h][j].ops :
    F0.insts[h][j].blks[i] = c /\ F0.insts[h][j].ops[i] = x
\* the instructions of block b that store operand v to, or load from, a slot
StoresTo(b, slot) ==
  {k \in DOMAIN F.insts[b] : F.insts[b][k].kind = "ckstore" /\ F.insts[b][k].slot = slot}
LoadsFrom(b, slot) ==
  {k \in DOMAIN F.insts[b] : F.insts[b][k].kind = "ckload" /\ F.insts[b][k].slot = slot}
\* what C30 says of the function once its latch c is instrumented
RoundTrip(c, h, x) ==
  /\ DOMAIN ckptIDsCkptToposMap = {1}
  /\ ckptIDsCkptToposMap[1].checkpointBB = c
  /\ LET t == ckptIDsCkptToposMap[1]
         m == funcJunctionBBPhiValsMap[t.junctionBB][x]
     IN /\ \A b \in {t.saveBB, t.restoreBB, t.junctionBB} : F.name[b][3] = 1
        /\ Cardinality(StoresTo(t.saveBB, VALUES_START)) = 1
        /\ \A k \in StoresTo(t.saveBB, VALUES_START) : F.insts[t.saveBB][k].ops = <<x>>
        /\ Cardinality(LoadsFrom(t.restoreBB, VALUES_START)) = 1
        /\ \A k \in LoadsFrom(t.restoreBB, VALUES_START) :
             F.insts[t.junctionBB] =
               <<PhiInst(m, <<x, F.insts[t.restoreBB][k].id>>, <<t.saveBB, t.restoreBB>>)>>
        /\ \A j \in PhiIdx(F0, h) :
             (\E i \in DOMAIN F0.insts[h][j].ops :
                 F0.insts[h][j].blks[i] = c /\ F0.insts[h][j].ops[i] = x) =>
               /\ F.insts[h][j].id = F0.insts[h][j].id
               /\ \A i \in DOMAIN F0.insts[h][j].ops :
                    IF F0.insts[h][j].blks[i] = c
                    THEN /\ F.insts[h][j].blks[i] = t.junctionBB
                         /\ F.insts[h][j].ops[i] = m
                    ELSE /\ F.insts[h][j].ops[i] = F0.insts[h][j].ops[i]
                         /\ F.insts[h][j].blks[i] \in {F0.insts[h][j].blks[i], restoreControllerBB}

PointerTrackedIdx == {k \in DOMAIN cur.trackedVals : cur.trackedVals[k] \in an.ptr}
SlotOfTracked(k) == VALUES_START + k - 1
\* the save block loads through v and stores the loaded word to the slot
SavesPointee(v, slot) ==
  \E i \in DOMAIN F.insts[cur.saveBB] :
    /\ i + 1 \in DOMAIN F.insts[cur.saveBB]
    /\ F.insts[cur.saveBB][i].kind = "load"
    /\ F.insts[cur.saveBB][i].ops = <<v>>
    /\ F.insts[cur.saveBB][i + 1].kind = "ckstore"
    /\ F.insts[cur.saveBB][i + 1].slot = slot
    /\ F.insts[cur.saveBB][i + 1].ops = <<F.insts[cur.saveBB][i].id>>
\* the restore block loads the slot, allocates a cell and stores the loaded
\* word to it; the junction phi merges v with the cell
RestoresToCell(v, slot) ==
  \E i \in DOMAIN F.insts[cur.restoreBB] :
    /\ i + 2 \in DOMAIN F.insts[cur.restoreBB]
    /\ F.insts[cur.restoreBB][i].kind = "ckload"
    /\ F.insts[cur.restoreBB][i].slot = slot
    /\ F.insts[cur.restoreBB][i + 1].kind = "alloca"
    /\ F.insts[cur.restoreBB][i + 2].kind = "store"
    /\ F.insts[cur.restoreBB][i + 2].ops =
         <<F.insts[cur.restoreBB][i].id, F.insts[cur.restoreBB][i + 1].id>>
    /\ \E j \in DOMAIN F.insts[cur.junctionBB] :
         F.insts[cur.junctionBB][j] =
           PhiInst(funcJunctionBBPhiValsMap[cur.junctionBB][v],
                   <<v, F.insts[cur.restoreBB][i + 1].id>>, <<cur.saveBB, cur.restoreBB>>)
\* control has come to the junction block from the restore or the save block
OnRestorePath == rt.active /\ rt.cur = cur.junctionBB /\ rt.prev = cur.restoreBB
OnSavePath == rt.active /\ rt.cur = cur.junctionBB /\ rt.prev = cur.saveBB
\* what C31 says of the k-th tracked value, a pointer: the restore block and
\* the junction phi are built as described; a run that has executed the save
\* block has the word v points to in the slot; the merged pointer is v on the
\* save path, and on the restore path it refers to a cell that holds the word
\* of the slot, which is the word last saved for v
PointerMarshalled(k) ==
  LET v == cur.trackedVals[k]
      m == funcJunctionBBPhiValsMap[cur.junctionBB][v]
  IN /\ RestoresToCell(v, SlotOfTracked(k))
     /\ AfterSaveBB =>
          /\ Val(rt.m.env, v) \in DOMAIN rt.m.heap
          /\ rt.m.mem[SlotOfTracked(k)] = rt.m.heap[Val(rt.m.env, v)]
     /\ OnSavePath => Val(rt.m.env, m) = Val(rt.m.env, v)
     /\ OnRestorePath =>
          /\ Val(rt.m.env, m) \in DOMAIN rt.m.heap
          /\ rt.m.heap[Val(rt.m.env, m)] = rt.m.mem[SlotOfTracked(k)]
          /\ v \in DOMAIN rt.saved => rt.m.heap[Val(rt.m.env, m)] = rt.saved[v]

\* C31: for a tracked value v of pointer type the save block stores the word
\* loaded through v, the restore block loads that slot into a newly allocated
\* cell, and the junction phi merges v from the save block with the cell from
\* the restore block; on the restore path the merged pointer refers to a cell
\* that holds the saved word.
C31_PointerRoundTrip ==
  Instrumented => \A k \in PointerTrackedIdx : PointerMarshalled(k)

\* C31 for the functions in which the propagation has left the save block
\* as it was populated
C31_SaveBlockUntouched ==
  Instrumented =>
    \A k \in PointerTrackedIdx :
      SavesPointee(cur.trackedVals[k], SlotOfTracked(k)) => PointerMarshalled(k)

\* a run that has saved a pointer-typed value is on the restore path of a
\* later invocation
C31_Witness ==
  /\ Instrumented
  /\ OnRestorePath
  /\ \E k \in PointerTrackedIdx :
       /\ cur.trackedVals[k] \in DOMAIN rt.saved
       /\ SavesPointee(cur.trackedVals[k], SlotOfTracked(k))
  /\ rt.inv = 2

\* the blocks of the function that the pass named as save, restore or
\* junction block
BlocksWithRole(r) == {b \in Blocks(F) : F.name[b][1] = r}
\* the pass has left the function, for whatever reason
PassLeft == pc = "end"

\* C32: once the pass has left a function, whatever the number of its
\* candidate blocks, the function has at most one CheckpointTopo, at most one
\* save, one restore and one junction block, and the switch of the dispatcher
\* has at most one case.
C32_AtMostOneCheckpoint ==
  PassLeft =>
    /\ Cardinality(DOMAIN checkpointBBTopoMap) <= 1
    /\ Cardinality(DOMAIN ckptIDsCkptToposMap) <= 1
    /\ \A r \in {"saveBB", "restoreBB", "junctionBB"} : Cardinality(BlocksWithRole(r)) <= 1
    /\ \A b \in Blocks(F) : Len(F.cases[b]) <= 1

\* a function with two candidate blocks has been instrumented
C32_Witness ==
  /\ Instrumented
  /\ Cardinality(DOMAIN bbCheckpoints) >= 2
  /\ Cardinality(DOMAIN checkpointBBTopoMap) = 1

\* the blocks from which candidate selection has erased a directive call
ErasedDirectiveBlocks ==
  {b \in Blocks(F0) : NumDirectives(F, b) < NumDirectives(F0, b)}

\* C33: once the pass has instrumented a function, every block whose
\* directive call was erased by candidate selection has a save block on its
\* exit edge and a paired restore block with a case of the dispatcher switch.
C33_ErasedIsInstrumented ==
  Instrumented => \A b \in ErasedDirectiveBlocks : Wired(b) /\ HasSwitchCase(b)

\* C33 for the one block the loop over the candidates takes, when no edge
\* split fails
C33_ChosenIsInstrumented ==
  Instrumented =>
    /\ cur.checkpointBB \in ErasedDirectiveBlocks
    /\ Wired(cur.checkpointBB) /\ HasSwitchCase(cur.checkpointBB)

\* every edge split has succeeded and a block has lost its directive without
\* being instrumented
C33_WitnessLeftOut ==
  /\ Instrumented
  /\ \E b \in ErasedDirectiveBlocks : b \notin DOMAIN checkpointBBTopoMap

-----------------------------------------------------------------------------
(* C34: the dispatcher runs once per invocation *)

\* how many times the invocation under way has entered block b
TimesEntered(b) == Cardinality({k \in DOMAIN rt.trace : rt.trace[k] = b})

\* the blocks a path from one of the blocks of S reaches (S excluded unless
\* a path leads back into it)
ReachedAfter(S) ==
  ReachFrom(F, {F.succ[b][i] : <<b, i>> \in {e \in S \X (1..4) : e[2] <= Len(F.succ[e[1]])}}, 0)

AddedBlocksOfCheckpoint ==
  {b \in Blocks(F) : RoleOf(b) \in {"restoreBB", "junctionBB"}}
    \cup {checkpointBBTopoMap[c].resumeBB : c \in DOMAIN checkpointBBTopoMap}

\* C34: in every execution of an instrumented function the dispatcher block
\* is entered at most once per invocation, and no path leads from a restore,
\* junction or resume block back to the dispatcher.
C34_DispatcherOnce ==
  Instrumented =>
    /\ rt.active => TimesEntered(restoreControllerBB) <= 1
    /\ restoreControllerBB \notin ReachedAfter(AddedBlocksOfCheckpoint)

\* C34 for the checkpoint blocks other than the entry block
C34_DispatcherOnceOffEntry ==
  (Instrumented /\ cur.checkpointBB # 1) =>
    /\ rt.active => TimesEntered(restoreControllerBB) <= 1
    /\ restoreControllerBB \notin ReachedAfter(AddedBlocksOfCheckpoint)

\* an invocation resumed through the dispatcher, the restore block and the
\* junction block, and went on into the resume block
C34_Witness ==
  /\ Instrumented /\ rt.active /\ cur.checkpointBB # 1
  /\ TimesEntered(restoreControllerBB) = 1
  /\ \E k \in DOMAIN rt.trace : k > 3 /\ RoleOf(rt.trace[k - 2]) = "restoreBB"
                                      /\ RoleOf(rt.trace[k - 1]) = "junctionBB"
                                      /\ rt.trace[k] = cur.resumeBB

-----------------------------------------------------------------------------
(* C35: a snapshot under interruption *)

TrackedSlots == {SlotOfTracked(k) : k \in DOMAIN cur.trackedVals}
\* the save block of the checkpoint has written CKPT_ID and the slot holds
\* the id the pass installed
IdInstalled ==
  /\ rt.writer[CKPT_ID] # 0
  /\ \E id \in DOMAIN ckptIDsCkptToposMap : rt.m.mem[CKPT_ID] = id
\* the executions of the save block that wrote the tracked-value slots
SnapshotWriters == {rt.writer[s] : s \in TrackedSlots}

\* C35: with execution stopping after any instruction, in every state where
\* the CKPT_ID slot holds an installed id the tracked-value slots all hold
\* values written by one and the same execution of the save block.
C35_SnapshotOfOneExecution ==
  (Instrumented /\ IdInstalled) => Cardinality(SnapshotWriters) <= 1

\* C35 for the states up to the second execution of the save block
C35_FirstSnapshotWhole ==
  (Instrumented /\ IdInstalled /\ rt.saveRuns <= 1) => SnapshotWriters = {1}

\* execution was stopped between two stores of the save block and the
\* memory holds values of two executions under the installed id
C35_WitnessTorn ==
  /\ Instrumented /\ IdInstalled /\ ~rt.active
  /\ Len(cur.trackedVals) = 2
  /\ SnapshotWriters = {1, 2}
  /\ rt.m.mem[SlotOfTracked(1)] # rt.m.mem[SlotOfTracked(2)]
\* a whole snapshot of two values left by an interrupted run
C35_Witness ==
  /\ Instrumented /\ IdInstalled /\ ~rt.active
  /\ Len(cur.trackedVals) = 2 /\ SnapshotWriters = {1} /\ rt.saveRuns = 1

-----------------------------------------------------------------------------
(* C36: one propagator phi per block and tracked value *)

TimesNewPhi(b) ==
  Cardinality({k \in DOMAIN lastCall.newPhiBBs : lastCall.newPhiBBs[k] = b})

\* C36: over the whole BFS of a tracked value the propagator inserts at most
\* one new phi into any given block; a later request reaching a block that
\* has received one edits a phi instead of creating another.
C36_OneNewPhiPerBlock ==
  Returned => \A b \in Blocks(F) : TimesNewPhi(b) <= 1

\* a block that received a new phi is reached again and the request takes
\* the modify branch
C36_Witness ==
  /\ Returned
  /\ lastCall.branch = "modify_phi"
  /\ TimesNewPhi(lastCall.req.currBB) = 1
  /\ lastCall.F # F

-----------------------------------------------------------------------------
(* C37: chooseBBWithLeastTrackedVals and the entry block *)

Chosen == pc = "chosen"
CountOf(k) == Cardinality(bbTrackedVals[k].vals)
\* the counts of at least minValsCount among the blocks other than the entry
NonEntryCounts ==
  {CountOf(k) : k \in {j \in DOMAIN bbTrackedVals :
                         bbTrackedVals[j].bb # 1 /\ CountOf(j) >= defaultMinValsCount}}
LeastNonEntryCount == CHOOSE n \in NonEntryCounts : \A x \in NonEntryCounts : n <= x

\* C37: chooseBBWithLeastTrackedVals never returns the entry block; every
\* block it returns has the same number n of tracked values, the smallest
\* count >= minValsCount among the non-entry blocks; it returns the empty
\* map when no block has at least minValsCount tracked values.
C37_ChooseIgnoresEntry ==
  Chosen =>
    /\ 1 \notin DOMAIN bbCheckpoints
    /\ \A b \in DOMAIN bbCheckpoints :
         NonEntryCounts # {} /\ Cardinality(bbCheckpoints[b]) = LeastNonEntryCount
    /\ (\A k \in DOMAIN bbTrackedVals : CountOf(k) < defaultMinValsCount)
         => bbCheckpoints = EmptyMap

\* C37 for the blocks other than the entry block: those returned are the
\* non-entry blocks of the least count >= minValsCount, when the map holds
\* a non-entry block
C37_NonEntryChosen ==
  (Chosen /\ \E k \in DOMAIN bbTrackedVals : bbTrackedVals[k].bb # 1) =>
    /\ DOMAIN bbCheckpoints \ {1} =
         {bbTrackedVals[k].bb : k \in {j \in DOMAIN bbTrackedVals :
            /\ bbTrackedVals[j].bb # 1
            /\ NonEntryCounts # {}
            /\ CountOf(j) = LeastNonEntryCount}}
    /\ (\A k \in DOMAIN bbTrackedVals : CountOf(k) < defaultMinValsCount)
         => bbCheckpoints = EmptyMap

\* the entry block is returned next to a block of the same count
C37_WitnessEntryReturned ==
  /\ Chosen
  /\ 1 \in DOMAIN bbCheckpoints
  /\ \E b \in DOMAIN bbCheckpoints : b # 1

-----------------------------------------------------------------------------
(* C38: the search for the compare of a conditional branch *)

\* C38: the search for the compare instruction terminates for every block.
C38_SearchTerminates == (pc = "cmp_search") ~> (pc = "cmp_done")

\* C38, what a search that has returned hands back: the compare defining
\* the condition when it stands in front of the terminator, null otherwise
C38_ResultOfSearch ==
  pc = "cmp_done" =>
    IF \E i \in DOMAIN instList :
         instList[i].kind \in {"icmp", "fcmp"} /\ instList[i].id = condi
    THEN cmp_instr = condi
    ELSE cmp_instr = 0

\* the search is still running after more turns than the block has
\* instructions, the compare of the condition being in the block
C38_WitnessSpins ==
  /\ pc = "cmp_search"
  /\ iters > Len(instList)
  /\ \E i \in DOMAIN instList :
       instList[i].kind \in {"icmp", "fcmp"} /\ instList[i].id = condi

-----------------------------------------------------------------------------
(* C39: the retry loop of ModuleTransformationPass::injectSubroutines *)

RetryLeft == pc = "retry_left"

\* C39: candidate selection is retried with minimum count c + 1 when no save
\* block could be inserted at count c, until a save block is inserted or no
\* block has that many tracked values: the loop is left only then.
C39_RetriesUntilInserted ==
  RetryLeft =>
    \/ saveBBsList > 0
    \/ chooseBBWithLeastTrackedVals(bbTrackedVals, defaultMinValsCount) = EmptyMap

\* C39, termination of the retry loop
C39_RetryTerminates == (pc = "retry_loop") ~> RetryLeft

\* the loop is left after one turn that inserted no save block although a
\* block has c + 1 tracked values
C39_WitnessNoRetry ==
  /\ RetryLeft
  /\ saveBBsList = 0
  /\ hasInjectedSubroutinesForFunc
  /\ DOMAIN chooseBBWithLeastTrackedVals(bbTrackedVals, defaultMinValsCount) # {}
====
